---------------------------- MODULE Spec2Model ----------------------------
(***************************************************************************)
(* A model of the transformation algebra of mathue: Matrix3, Matrix4,      *)
(* Quaternion and Vector1..Vector4, with the per-class scratch instances.  *)
(*                                                                         *)
(* Numbers.  A JavaScript number is modelled exactly, as an element of     *)
(* the field Q(sqrt 2) extended with the IEEE-754 specials: the triple     *)
(* <<p, q, d>> with d > 0 stands for (p + q*sqrt(2)) / d in lowest terms,  *)
(* <<1,0,0>> for +Infinity, <<-1,0,0>> for -Infinity and <<0,0,0>> for     *)
(* NaN.  Rounding (Float32Array storage, double arithmetic) and the sign   *)
(* of zero are not modelled: every formula below is about real-number      *)
(* arithmetic plus the IEEE rules for division by zero.                    *)
(*                                                                         *)
(* Layout.  elements[i] of the source is E(M, i) == M[i + 1]; the          *)
(* destructured names of the source (a00, a01, ... = elements[0],          *)
(* elements[1], ...) are kept.                                             *)
(***************************************************************************)
EXTENDS Integers, Sequences, FiniteSets, TLC

-----------------------------------------------------------------------------
(* Numbers *)

Abs(n) == IF n < 0 THEN -n ELSE n

RECURSIVE GCD(_, _)
GCD(a, b) == IF b = 0 THEN a ELSE GCD(b, a % b)

NaN == <<0, 0, 0>>
PosInf == <<1, 0, 0>>
NegInf == <<-1, 0, 0>>

IsNaN(x) == x = NaN
IsFinite(x) == x[3] > 0

\* (p + q*sqrt 2)/d in lowest terms, d > 0
Norm(p, q, d) ==
  IF d = 1 THEN <<p, q, 1>>
  ELSE LET g == GCD(GCD(Abs(p), Abs(q)), d)
       IN <<p \div g, q \div g, d \div g>>

R(n) == <<n, 0, 1>>
Frac(n, d) == Norm(n, 0, d)
Zero == R(0)
One == R(1)

\* sign of p + q*sqrt 2 (sqrt 2 is irrational, so p*p = 2*q*q only at 0)
SgnPQ(p, q) ==
  IF q = 0 THEN (IF p > 0 THEN 1 ELSE IF p < 0 THEN -1 ELSE 0)
  ELSE IF p = 0 THEN (IF q > 0 THEN 1 ELSE -1)
  ELSE IF p > 0 /\ q > 0 THEN 1
  ELSE IF p < 0 /\ q < 0 THEN -1
  ELSE IF p > 0 THEN (IF p * p > 2 * q * q THEN 1 ELSE -1)
  ELSE (IF 2 * q * q > p * p THEN 1 ELSE -1)

\* sign of a number that is not NaN (the infinities carry theirs in p)
Sgn(x) == SgnPQ(x[1], x[2])

Neg(x) == <<-x[1], -x[2], x[3]>>

Add(x, y) ==
  IF IsNaN(x) \/ IsNaN(y) THEN NaN
  ELSE IF ~IsFinite(x) THEN (IF IsFinite(y) \/ x = y THEN x ELSE NaN)
  ELSE IF ~IsFinite(y) THEN y
  ELSE IF x[3] = 1 /\ y[3] = 1 THEN <<x[1] + y[1], x[2] + y[2], 1>>
  ELSE LET g == GCD(x[3], y[3])
           mx == y[3] \div g
           my == x[3] \div g
       IN Norm(x[1] * mx + y[1] * my, x[2] * mx + y[2] * my, x[3] * mx)

Sub(x, y) == Add(x, Neg(y))

Mul(x, y) ==
  IF IsNaN(x) \/ IsNaN(y) THEN NaN
  ELSE IF ~IsFinite(x) \/ ~IsFinite(y)
    THEN (IF Sgn(x) * Sgn(y) > 0 THEN PosInf
          ELSE IF Sgn(x) * Sgn(y) < 0 THEN NegInf ELSE NaN)
  ELSE IF x[2] = 0 /\ y[2] = 0
    THEN Norm(x[1] * y[1], 0, x[3] * y[3])
  ELSE Norm(x[1] * y[1] + 2 * x[2] * y[2],
            x[1] * y[2] + x[2] * y[1],
            x[3] * y[3])

\* 1 / x for finite x # 0: d*(p - q*sqrt 2) / (p*p - 2*q*q)
Recip(x) ==
  LET n == x[1] * x[1] - 2 * x[2] * x[2]
  IN IF n > 0 THEN Norm(x[3] * x[1], -(x[3] * x[2]), n)
     ELSE Norm(-(x[3] * x[1]), x[3] * x[2], -n)

Div(x, y) ==
  IF IsNaN(x) \/ IsNaN(y) THEN NaN
  ELSE IF ~IsFinite(x)
    THEN (IF ~IsFinite(y) THEN NaN
          ELSE IF Sgn(x) * Sgn(y) < 0 THEN NegInf ELSE PosInf)
  ELSE IF ~IsFinite(y) THEN Zero
  ELSE IF Sgn(y) = 0
    THEN (IF Sgn(x) > 0 THEN PosInf ELSE IF Sgn(x) < 0 THEN NegInf ELSE NaN)
  ELSE Mul(x, Recip(y))

\* x < y as JavaScript evaluates it (false when either side is NaN)
Lt(x, y) ==
  /\ ~IsNaN(x)
  /\ ~IsNaN(y)
  /\ x # y
  /\ IF ~IsFinite(x) THEN x = NegInf
     ELSE IF ~IsFinite(y) THEN y = PosInf
     ELSE Sgn(Sub(x, y)) < 0

Le(x, y) == ~IsNaN(x) /\ ~IsNaN(y) /\ (x = y \/ Lt(x, y))

\* Math.abs
MathAbs(x) == IF IsNaN(x) THEN NaN ELSE IF Sgn(x) < 0 THEN Neg(x) ELSE x

E(M, i) == M[i + 1]

Sq(x) == Mul(x, x)


-----------------------------------------------------------------------------
(* Quaternion: <<a, b, c, d>> for a + bi + cj + dk *)

QIdentity == <<One, Zero, Zero, Zero>>

QSquaredNorm(q) == Add(Add(Add(Sq(q[1]), Sq(q[2])), Sq(q[3])), Sq(q[4]))

\* mutant of QMultiply: the operands take each other's place
QMultiplyOperandsSwapped(this, other) ==
  LET ta == other[1]  tb == other[2]  tc == other[3]  td == other[4]
      oa == this[1]   ob == this[2]   oc == this[3]   od == this[4]
  IN << Sub(Sub(Sub(Mul(ta, oa), Mul(tb, ob)), Mul(tc, oc)), Mul(td, od)),
        Sub(Add(Add(Mul(ta, ob), Mul(tb, oa)), Mul(tc, od)), Mul(td, oc)),
        Add(Add(Sub(Mul(ta, oc), Mul(tb, od)), Mul(tc, oa)), Mul(td, ob)),
        Add(Sub(Add(Mul(ta, od), Mul(tb, oc)), Mul(tc, ob)), Mul(td, oa)) >>

\* this.multiply(other): the new components of this
QMultiply(this, other) ==
  LET ta == this[1]  tb == this[2]  tc == this[3]  td == this[4]
      oa == other[1] ob == other[2] oc == other[3] od == other[4]
  IN << Sub(Sub(Sub(Mul(ta, oa), Mul(tb, ob)), Mul(tc, oc)), Mul(td, od)),
        Sub(Add(Add(Mul(ta, ob), Mul(tb, oa)), Mul(tc, od)), Mul(td, oc)),
        Add(Add(Sub(Mul(ta, oc), Mul(tb, od)), Mul(tc, oa)), Mul(td, ob)),
        Add(Sub(Add(Mul(ta, od), Mul(tb, oc)), Mul(tc, ob)), Mul(td, oa)) >>

QConjugate(q) == <<q[1], Mul(q[2], R(-1)), Mul(q[3], R(-1)), Mul(q[4], R(-1))>>

QDivideScalar(q, scalar) ==
  <<Div(q[1], scalar), Div(q[2], scalar), Div(q[3], scalar), Div(q[4], scalar)>>

\* mutant of QInvertFails: only a negative squared norm fails
QInvertFailsOnNegative(q) == Lt(QSquaredNorm(q), Zero)

\* invert(): norm2 <= 0, the case in which null is returned
QInvertFails(q) == Le(QSquaredNorm(q), Zero)

\* mutant of QInverse: the conjugation is left out
QInverseWithoutConjugate(q) == QDivideScalar(q, QSquaredNorm(q))

\* invert(): the new components of this when null is not returned
QInverse(q) == QDivideScalar(QConjugate(q), QSquaredNorm(q))

\* Math.sqrt.  The model's numbers contain the square root of a rational
\* p/d only when p*d is a square or twice a square; any other argument
\* yields a value that no arithmetic accepts, so that no run continues on it.
ISqrt(n) == CHOOSE r \in 0..n : r * r <= n /\ (r + 1) * (r + 1) > n

MathSqrt(x) ==
  IF IsNaN(x) THEN NaN
  ELSE IF x = PosInf THEN PosInf
  ELSE IF Sgn(x) < 0 THEN NaN
  ELSE IF x[2] # 0 THEN <<"irrational">>
  ELSE LET n == x[1] * x[3]
       IN IF ISqrt(n) * ISqrt(n) = n THEN Frac(ISqrt(n), x[3])
          ELSE IF n % 2 = 0 /\ ISqrt(n \div 2) * ISqrt(n \div 2) = n \div 2
            THEN Norm(0, ISqrt(n \div 2), x[3])
          ELSE <<"irrational">>

\* Math.cos(angle / 2) and Math.sin(angle / 2) for angle = k * (PI / 2):
\* the exact values of cos and sin at k * (PI / 4)
HalfSqrt2 == <<0, 1, 2>>

MathCosHalf(k) ==
  LET m == k % 8
  IN IF m = 0 THEN One
     ELSE IF m \in {1, 7} THEN HalfSqrt2
     ELSE IF m \in {2, 6} THEN Zero
     ELSE IF m \in {3, 5} THEN Neg(HalfSqrt2)
     ELSE R(-1)

MathSinHalf(k) ==
  LET m == k % 8
  IN IF m \in {0, 4} THEN Zero
     ELSE IF m \in {1, 3} THEN HalfSqrt2
     ELSE IF m = 2 THEN One
     ELSE IF m \in {5, 7} THEN Neg(HalfSqrt2)
     ELSE R(-1)

-----------------------------------------------------------------------------
(* Vector3: <<x, y, z>> *)

V3IsZero(v) == v[1] = Zero /\ v[2] = Zero /\ v[3] = Zero

V3Length(v) == MathSqrt(Add(Add(Sq(v[1]), Sq(v[2])), Sq(v[3])))

V3DivideScalar(v, scalar) ==
  <<Div(v[1], scalar), Div(v[2], scalar), Div(v[3], scalar)>>

V3Normalize(v) ==
  LET length == V3Length(v)
  IN IF Le(length, Zero) THEN v ELSE V3DivideScalar(v, length)

\* mutant of V3Cross: each component is stored as soon as it is computed
V3CrossInPlace(this, other) ==
  LET x == Sub(Mul(this[2], other[3]), Mul(this[3], other[2]))
      y == Sub(Mul(this[3], other[1]), Mul(x, other[3]))
      z == Sub(Mul(x, other[2]), Mul(y, other[1]))
  IN <<x, y, z>>

\* cross(other): the new components of this
V3Cross(this, other) ==
  LET tx == this[1]   ty == this[2]   tz == this[3]
      ox == other[1]  oy == other[2]  oz == other[3]
      x == Sub(Mul(ty, oz), Mul(tz, oy))
      y == Sub(Mul(tz, ox), Mul(tx, oz))
      z == Sub(Mul(tx, oy), Mul(ty, ox))
  IN <<x, y, z>>

\* Vector1, Vector2 and Vector4: length(), divideScalar(), normalize()
V1Length(v) == MathAbs(v[1])

V1Normalize(v) == <<Div(v[1], V1Length(v))>>

V2Length(v) == MathSqrt(Add(Sq(v[1]), Sq(v[2])))

V2DivideScalar(v, scalar) == <<Div(v[1], scalar), Div(v[2], scalar)>>

V2Normalize(v) ==
  LET length == V2Length(v)
  IN IF Le(length, Zero) THEN v ELSE V2DivideScalar(v, length)

V4Length(v) == MathSqrt(Add(Add(Add(Sq(v[1]), Sq(v[2])), Sq(v[3])), Sq(v[4])))

V4DivideScalar(v, scalar) ==
  <<Div(v[1], scalar), Div(v[2], scalar), Div(v[3], scalar), Div(v[4], scalar)>>

V4Normalize(v) ==
  LET length == V4Length(v)
  IN IF Le(length, Zero) THEN v ELSE V4DivideScalar(v, length)

-----------------------------------------------------------------------------
(* Quaternion.setAxisAndAngle(axis, angle), angle = k * (PI / 2): the       *)
(* components of the receiver and of the axis vector after the call        *)

\* mutant of QSetAxisAndAngle: the zero axis is not set apart
QSetAxisAndAngleUnguarded(axis, k) ==
  LET n == V3Normalize(axis)
      sin == MathSinHalf(k)
  IN [q |-> <<MathCosHalf(k), Mul(n[1], sin), Mul(n[2], sin), Mul(n[3], sin)>>,
      axis |-> n]

QSetAxisAndAngle(axis, k) ==
  IF V3IsZero(axis) THEN [q |-> QIdentity, axis |-> axis]
  ELSE LET n == V3Normalize(axis)
           sin == MathSinHalf(k)
       IN [q |-> <<MathCosHalf(k), Mul(n[1], sin), Mul(n[2], sin), Mul(n[3], sin)>>,
           axis |-> n]

\* Quaternion.fromAxisAndAngle(axis, angle): the new quaternion
QFromAxisAndAngle(axis, k) == QSetAxisAndAngle(axis, k).q

-----------------------------------------------------------------------------
(* Matrix4: the 16 elements, column-major *)

Identity4 ==
  << One, Zero, Zero, Zero,  Zero, One, Zero, Zero,
     Zero, Zero, One, Zero,  Zero, Zero, Zero, One >>

Zero4 == [i \in 1..16 |-> Zero]

\* setScale(scale): setIdentity(), then row by row elements[row*4+column] *= scalar
M4SetScale(scale) ==
  [i \in 1..16 |->
      LET row == (i - 1) \div 4
          scalar == IF row = 4 - 1 THEN One ELSE scale[row + 1]
      IN Mul(Identity4[i], scalar)]

\* setTranslation(translation): elements 12..15 come from the elements read
\* before setIdentity()
M4SetTranslation(this, translation) ==
  LET x == translation[1]  y == translation[2]  z == translation[3]
      e00 == E(this, 0)   e01 == E(this, 1)   e02 == E(this, 2)   e03 == E(this, 3)
      e10 == E(this, 4)   e11 == E(this, 5)   e12 == E(this, 6)   e13 == E(this, 7)
      e20 == E(this, 8)   e21 == E(this, 9)   e22 == E(this, 10)  e23 == E(this, 11)
      e30 == E(this, 12)  e31 == E(this, 13)  e32 == E(this, 14)  e33 == E(this, 15)
  IN [i \in 1..16 |->
        IF i = 13 THEN Add(Add(Add(Mul(e00, x), Mul(e10, y)), Mul(e20, z)), e30)
        ELSE IF i = 14 THEN Add(Add(Add(Mul(e01, x), Mul(e11, y)), Mul(e21, z)), e31)
        ELSE IF i = 15 THEN Add(Add(Add(Mul(e02, x), Mul(e12, y)), Mul(e22, z)), e32)
        ELSE IF i = 16 THEN Add(Add(Add(Mul(e03, x), Mul(e13, y)), Mul(e23, z)), e33)
        ELSE Identity4[i]]

\* setRotation(rotation)
M4SetRotation(rotation) ==
  LET a == rotation[1]  b == rotation[2]  c == rotation[3]  d == rotation[4]
      s == Div(R(2), QSquaredNorm(rotation))
      b2 == Sq(b)  c2 == Sq(c)  d2 == Sq(d)
      ab == Mul(a, b)  ac == Mul(a, c)  ad == Mul(a, d)
      bc == Mul(b, c)  bd == Mul(b, d)  cd == Mul(c, d)
  IN << Sub(One, Mul(s, Add(c2, d2))),
        Mul(s, Sub(bc, ad)),
        Mul(s, Add(bd, ac)),
        Zero,
        Mul(s, Add(bc, ad)),
        Sub(One, Mul(s, Add(b2, d2))),
        Mul(s, Sub(cd, ab)),
        Zero,
        Mul(s, Sub(bd, ac)),
        Mul(s, Add(cd, ab)),
        Sub(One, Mul(s, Add(b2, c2))),
        Zero,
        Zero,
        Zero,
        Zero,
        One >>

\* mutant of M4Multiply: the operands take each other's place
M4MultiplyOperandsSwapped(this, other) ==
  [i \in 1..16 |->
      LET c == (i - 1) \div 4
          r == (i - 1) % 4
      IN Add(Add(Add(Mul(E(this, 4 * c), E(other, r)),
                     Mul(E(this, 4 * c + 1), E(other, 4 + r))),
                 Mul(E(this, 4 * c + 2), E(other, 8 + r))),
             Mul(E(this, 4 * c + 3), E(other, 12 + r)))]

\* this.multiply(other): elements[4*c + r] = sum over k of b_ck * a_kr, where
\* b_ck is other.elements[4*c + k] and a_kr is this.elements[4*k + r]
M4Multiply(this, other) ==
  [i \in 1..16 |->
      LET c == (i - 1) \div 4
          r == (i - 1) % 4
      IN Add(Add(Add(Mul(E(other, 4 * c), E(this, r)),
                     Mul(E(other, 4 * c + 1), E(this, 4 + r))),
                 Mul(E(other, 4 * c + 2), E(this, 8 + r))),
             Mul(E(other, 4 * c + 3), E(this, 12 + r)))]

M4Determinant(this) ==
  LET a00 == E(this, 0)   a01 == E(this, 1)   a02 == E(this, 2)   a03 == E(this, 3)
      a10 == E(this, 4)   a11 == E(this, 5)   a12 == E(this, 6)   a13 == E(this, 7)
      a20 == E(this, 8)   a21 == E(this, 9)   a22 == E(this, 10)  a23 == E(this, 11)
      a30 == E(this, 12)  a31 == E(this, 13)  a32 == E(this, 14)  a33 == E(this, 15)
      m2233 == Sub(Mul(a22, a33), Mul(a23, a32))
      m2133 == Sub(Mul(a21, a33), Mul(a23, a31))
      m2132 == Sub(Mul(a21, a32), Mul(a22, a31))
      m2033 == Sub(Mul(a20, a33), Mul(a23, a30))
      m2032 == Sub(Mul(a20, a32), Mul(a22, a30))
      m2031 == Sub(Mul(a20, a31), Mul(a21, a30))
  IN Sub(Add(Sub(
       Mul(a00, Add(Sub(Mul(a11, m2233), Mul(a12, m2133)), Mul(a13, m2132))),
       Mul(a01, Add(Sub(Mul(a10, m2233), Mul(a12, m2033)), Mul(a13, m2032)))),
       Mul(a02, Add(Sub(Mul(a10, m2133), Mul(a11, m2033)), Mul(a13, m2031)))),
       Mul(a03, Add(Sub(Mul(a10, m2132), Mul(a11, m2032)), Mul(a12, m2031))))

\* EPSILON = 1.0e-8, as 1 / EpsilonInverse
EpsilonInverse == 100000000

\* Math.abs(determinant) < EPSILON.  For a rational p/d this is
\* |p| * 10^8 < d, evaluated as |p| <= (d - 1) \div 10^8 to stay in range.
BelowEpsilon(determinant) ==
  LET m == MathAbs(determinant)
  IN IF IsNaN(m) THEN FALSE
     ELSE IF ~IsFinite(m) THEN FALSE
     ELSE IF m[2] = 0 THEN m[1] <= (m[3] - 1) \div EpsilonInverse
     ELSE Lt(m, Frac(1, EpsilonInverse))

\* invert(): the elements after the call when the determinant test passes
M4Inverse(this) ==
  LET determinant == M4Determinant(this)
      a00 == E(this, 0)   a01 == E(this, 1)   a02 == E(this, 2)   a03 == E(this, 3)
      a10 == E(this, 4)   a11 == E(this, 5)   a12 == E(this, 6)   a13 == E(this, 7)
      a20 == E(this, 8)   a21 == E(this, 9)   a22 == E(this, 10)  a23 == E(this, 11)
      a30 == E(this, 12)  a31 == E(this, 13)  a32 == E(this, 14)  a33 == E(this, 15)
      tmp0 == Sub(Mul(a22, a33), Mul(a23, a32))
      tmp1 == Sub(Mul(a21, a33), Mul(a23, a31))
      tmp2 == Sub(Mul(a21, a32), Mul(a22, a31))
      tmp3 == Sub(Mul(a12, a33), Mul(a13, a32))
      tmp4 == Sub(Mul(a11, a33), Mul(a13, a31))
      tmp5 == Sub(Mul(a11, a32), Mul(a12, a31))
      tmp6 == Sub(Mul(a12, a23), Mul(a13, a22))
      tmp7 == Sub(Mul(a11, a23), Mul(a13, a21))
      tmp8 == Sub(Mul(a11, a22), Mul(a12, a21))
      tmp9 == Sub(Mul(a20, a33), Mul(a23, a30))
      tmp10 == Sub(Mul(a20, a32), Mul(a22, a30))
      tmp11 == Sub(Mul(a10, a33), Mul(a13, a30))
      tmp12 == Sub(Mul(a10, a32), Mul(a12, a30))
      tmp13 == Sub(Mul(a10, a23), Mul(a13, a20))
      tmp14 == Sub(Mul(a10, a22), Mul(a12, a20))
      tmp15 == Sub(Mul(a20, a31), Mul(a21, a30))
      tmp16 == Sub(Mul(a10, a31), Mul(a11, a30))
      tmp17 == Sub(Mul(a10, a21), Mul(a11, a20))
      \* p*x - q*y + r*z
      T(p, x, q, y, r, z) == Add(Sub(Mul(p, x), Mul(q, y)), Mul(r, z))
  IN << Div(T(a11, tmp0, a12, tmp1, a13, tmp2), determinant),
        Div(Neg(T(a01, tmp0, a02, tmp1, a03, tmp2)), determinant),
        Div(T(a01, tmp3, a02, tmp4, a03, tmp5), determinant),
        Div(Neg(T(a01, tmp6, a02, tmp7, a03, tmp8)), determinant),
        Div(Neg(T(a10, tmp0, a12, tmp9, a13, tmp10)), determinant),
        Div(T(a00, tmp0, a02, tmp9, a03, tmp10), determinant),
        Div(Neg(T(a00, tmp3, a02, tmp11, a03, tmp12)), determinant),
        Div(T(a00, tmp6, a02, tmp13, a03, tmp14), determinant),
        Div(T(a10, tmp1, a11, tmp9, a13, tmp15), determinant),
        Div(Neg(T(a00, tmp1, a01, tmp9, a03, tmp15)), determinant),
        Div(T(a00, tmp4, a01, tmp11, a03, tmp16), determinant),
        Div(Neg(T(a00, tmp7, a01, tmp13, a03, tmp17)), determinant),
        Div(Neg(T(a10, tmp2, a11, tmp10, a12, tmp15)), determinant),
        Div(T(a00, tmp2, a01, tmp10, a02, tmp15), determinant),
        Div(Neg(T(a00, tmp5, a01, tmp12, a02, tmp16)), determinant),
        Div(T(a00, tmp8, a01, tmp14, a02, tmp17), determinant) >>

\* mutant of M4InvertFails: the determinant test is missing
M4InvertNeverFails(this) == FALSE

\* invert() returns null exactly when this holds
M4InvertFails(this) == BelowEpsilon(M4Determinant(this))

\* Math.tan(verticalFov / 2) for verticalFov = k * (PI / 2), k odd or a
\* multiple of 4: the exact value of tan at k * (PI / 4)
MathTanHalf(k) ==
  LET m == k % 4
  IN IF m = 0 THEN Zero
     ELSE IF m = 1 THEN One
     ELSE IF m = 3 THEN R(-1)
     ELSE <<"unbounded">>

\* lookAt: (cx, cy, cz), the camera direction divided by its length
M4LookAtDirection(position, target) ==
  LET cx == Sub(position[1], target[1])
      cy == Sub(position[2], target[2])
      cz == Sub(position[3], target[3])
      cLength == MathSqrt(Add(Add(Sq(cx), Sq(cy)), Sq(cz)))
  IN <<Div(cx, cLength), Div(cy, cLength), Div(cz, cLength)>>

\* lookAt: (ax, ay, az) from up and c, and (bx, by, bz) from c and a: the
\* cross product u x v, divided by its length when that is > 0
M4LookAtAxis(u, v) ==
  LET x == Sub(Mul(u[2], v[3]), Mul(u[3], v[2]))
      y == Sub(Mul(u[3], v[1]), Mul(u[1], v[3]))
      z == Sub(Mul(u[1], v[2]), Mul(u[2], v[1]))
      length == MathSqrt(Add(Add(Sq(x), Sq(y)), Sq(z)))
  IN IF Lt(Zero, length) THEN <<Div(x, length), Div(y, length), Div(z, length)>>
     ELSE <<x, y, z>>

\* lookAt: the elements passed to set() for the camera basis a, b, c
M4LookAtSet(a, b, c, position) ==
  LET px == position[1]  py == position[2]  pz == position[3]
      dx == Neg(Add(Add(Mul(a[1], px), Mul(a[2], py)), Mul(a[3], pz)))
      dy == Neg(Add(Add(Mul(b[1], px), Mul(b[2], py)), Mul(b[3], pz)))
      dz == Neg(Add(Add(Mul(c[1], px), Mul(c[2], py)), Mul(c[3], pz)))
  IN << a[1], b[1], c[1], Zero,  a[2], b[2], c[2], Zero,
        a[3], b[3], c[3], Zero,  dx, dy, dz, One >>

\* lookAt(position, target, up): the elements after the call when the
\* camera direction is long enough; c, a and b are each computed once
M4LookAtElements(position, target, up) ==
  CHOOSE elements \in
    UNION { UNION { { M4LookAtSet(a, b, c, position) : b \in {M4LookAtAxis(c, a)} }
                    : a \in {M4LookAtAxis(up, c)} }
            : c \in {M4LookAtDirection(position, target)} } : TRUE

\* lookAt: cLength < EPSILON, the case in which nothing is written
M4LookAtTooClose(position, target) ==
  BelowEpsilon(MathSqrt(Add(Add(Sq(Sub(position[1], target[1])),
                                Sq(Sub(position[2], target[2]))),
                            Sq(Sub(position[3], target[3])))))

\* mutant of M4LookAt: the length of the camera direction is not tested
M4LookAtUnguarded(this, position, target, up) ==
  M4LookAtElements(position, target, up)

\* lookAt(position, target, up): the elements of this after the call
M4LookAt(this, position, target, up) ==
  IF M4LookAtTooClose(position, target) THEN this
  ELSE M4LookAtElements(position, target, up)

\* mutant of M4Perspective: the far = Infinity branch always uses the
\* coefficient of the [-1, 1] depth range
M4PerspectiveOneRange(verticalFov, near, far, aspect, depthZeroToOne) ==
  LET f == Div(One, MathTanHalf(verticalFov))
      coefficient == IF depthZeroToOne THEN One ELSE R(2)
      numerator == IF depthZeroToOne THEN far ELSE Add(far, near)
      e10 == IF far # PosInf THEN Div(Neg(numerator), Sub(far, near)) ELSE R(-1)
      e14 == IF far # PosInf
               THEN Div(Mul(Mul(Neg(coefficient), far), near), Sub(far, near))
               ELSE Mul(R(-2), near)
  IN << Div(f, aspect), Zero, Zero, Zero,  Zero, f, Zero, Zero,
        Zero, Zero, e10, R(-1),  Zero, Zero, e14, Zero >>

\* perspective(verticalFov, near, far, aspect, {depthZeroToOne}),
\* verticalFov = k * (PI / 2): the elements of this after the call
M4Perspective(verticalFov, near, far, aspect, depthZeroToOne) ==
  LET f == Div(One, MathTanHalf(verticalFov))
      coefficient == IF depthZeroToOne THEN One ELSE R(2)
      numerator == IF depthZeroToOne THEN far ELSE Add(far, near)
      e10 == IF far # PosInf THEN Div(Neg(numerator), Sub(far, near)) ELSE R(-1)
      e14 == IF far # PosInf
               THEN Div(Mul(Mul(Neg(coefficient), far), near), Sub(far, near))
               ELSE Mul(Neg(coefficient), near)
  IN << Div(f, aspect), Zero, Zero, Zero,  Zero, f, Zero, Zero,
        Zero, Zero, e10, R(-1),  Zero, Zero, e14, Zero >>

\* mutant of M4ApplyVector: the elements are read row-major
M4ApplyVectorRowMajor(this, x, y, z, w) ==
  LET xOut == Add(Add(Add(Mul(E(this, 0), x), Mul(E(this, 1), y)),
                      Mul(E(this, 2), z)), Mul(E(this, 3), w))
      yOut == Add(Add(Add(Mul(E(this, 4), x), Mul(E(this, 5), y)),
                      Mul(E(this, 6), z)), Mul(E(this, 7), w))
      zOut == Add(Add(Add(Mul(E(this, 8), x), Mul(E(this, 9), y)),
                      Mul(E(this, 10), z)), Mul(E(this, 11), w))
      wOut == Add(Add(Add(Mul(E(this, 12), x), Mul(E(this, 13), y)),
                      Mul(E(this, 14), z)), Mul(E(this, 15), w))
  IN <<xOut, yOut, zOut, wOut>>

\* _applyVector(x, y, z, w): the value left in Matrix4.tmpVector
M4ApplyVector(this, x, y, z, w) ==
  LET e00 == E(this, 0)   e01 == E(this, 1)   e02 == E(this, 2)   e03 == E(this, 3)
      e10 == E(this, 4)   e11 == E(this, 5)   e12 == E(this, 6)   e13 == E(this, 7)
      e20 == E(this, 8)   e21 == E(this, 9)   e22 == E(this, 10)  e23 == E(this, 11)
      e30 == E(this, 12)  e31 == E(this, 13)  e32 == E(this, 14)  e33 == E(this, 15)
      xOut == Add(Add(Add(Mul(e00, x), Mul(e10, y)), Mul(e20, z)), Mul(e30, w))
      yOut == Add(Add(Add(Mul(e01, x), Mul(e11, y)), Mul(e21, z)), Mul(e31, w))
      zOut == Add(Add(Add(Mul(e02, x), Mul(e12, y)), Mul(e22, z)), Mul(e32, w))
      wOut == Add(Add(Add(Mul(e03, x), Mul(e13, y)), Mul(e23, z)), Mul(e33, w))
  IN <<xOut, yOut, zOut, wOut>>

-----------------------------------------------------------------------------
(* Matrix3: the 9 elements, column-major *)

Identity3 == << One, Zero, Zero,  Zero, One, Zero,  Zero, Zero, One >>

Zero3 == [i \in 1..9 |-> Zero]

\* this.multiply(other): elements[3*c + r] = sum over k of b_ck * a_kr
M3Multiply(this, other) ==
  [i \in 1..9 |->
      LET c == (i - 1) \div 3
          r == (i - 1) % 3
      IN Add(Add(Mul(E(other, 3 * c), E(this, r)),
                 Mul(E(other, 3 * c + 1), E(this, 3 + r))),
             Mul(E(other, 3 * c + 2), E(this, 6 + r)))]

\* mutant of M3Determinant: a sign slip in the second term
M3DeterminantSignSlip(this) ==
  LET a00 == E(this, 0)  a01 == E(this, 1)  a02 == E(this, 2)
      a10 == E(this, 3)  a11 == E(this, 4)  a12 == E(this, 5)
      a20 == E(this, 6)  a21 == E(this, 7)  a22 == E(this, 8)
  IN Add(Add(Mul(a00, Sub(Mul(a22, a11), Mul(a12, a21))),
             Mul(a01, Add(Mul(a22, a10), Mul(a12, a20)))),
         Mul(a02, Sub(Mul(a21, a10), Mul(a11, a20))))

M3Determinant(this) ==
  LET a00 == E(this, 0)  a01 == E(this, 1)  a02 == E(this, 2)
      a10 == E(this, 3)  a11 == E(this, 4)  a12 == E(this, 5)
      a20 == E(this, 6)  a21 == E(this, 7)  a22 == E(this, 8)
  IN Add(Add(Mul(a00, Sub(Mul(a22, a11), Mul(a12, a21))),
             Mul(a01, Add(Mul(Neg(a22), a10), Mul(a12, a20)))),
         Mul(a02, Sub(Mul(a21, a10), Mul(a11, a20))))

M3Inverse(this) ==
  LET determinant == M3Determinant(this)
      a00 == E(this, 0)  a01 == E(this, 1)  a02 == E(this, 2)
      a10 == E(this, 3)  a11 == E(this, 4)  a12 == E(this, 5)
      a20 == E(this, 6)  a21 == E(this, 7)  a22 == E(this, 8)
      tmp0 == Sub(Mul(a22, a11), Mul(a12, a21))
      tmp1 == Add(Mul(Neg(a22), a10), Mul(a12, a20))
      tmp2 == Sub(Mul(a21, a10), Mul(a11, a20))
  IN << Div(tmp0, determinant),
        Div(Add(Mul(Neg(a22), a01), Mul(a02, a21)), determinant),
        Div(Sub(Mul(a12, a01), Mul(a02, a11)), determinant),
        Div(tmp1, determinant),
        Div(Sub(Mul(a22, a00), Mul(a02, a20)), determinant),
        Div(Add(Mul(Neg(a12), a00), Mul(a02, a10)), determinant),
        Div(tmp2, determinant),
        Div(Add(Mul(Neg(a21), a00), Mul(a01, a20)), determinant),
        Div(Sub(Mul(a11, a00), Mul(a01, a10)), determinant) >>

M3InvertFails(this) == BelowEpsilon(M3Determinant(this))

\* _applyVector(x, y, z): the value left in Matrix3.tmpVector
M3ApplyVector(this, x, y, z) ==
  LET e00 == E(this, 0)  e01 == E(this, 1)  e02 == E(this, 2)
      e10 == E(this, 3)  e11 == E(this, 4)  e12 == E(this, 5)
      e20 == E(this, 6)  e21 == E(this, 7)  e22 == E(this, 8)
      xOut == Add(Add(Mul(e00, x), Mul(e10, y)), Mul(e20, z))
      yOut == Add(Add(Mul(e01, x), Mul(e11, y)), Mul(e21, z))
      zOut == Add(Add(Mul(e02, x), Mul(e12, y)), Mul(e22, z))
  IN <<xOut, yOut, zOut>>

-----------------------------------------------------------------------------
(* VectorN.applyMatrix3 / applyMatrix4: the components of the receiver     *)
(* after the call (the matrix is copied to the class scratch matrix, which *)
(* is applied to the components padded with 0).                            *)

V4ApplyMatrix4(v, matrix) == M4ApplyVector(matrix, v[1], v[2], v[3], v[4])

\* mutant of V3ApplyMatrix4: the vector is taken as a point (w = 1)
V3ApplyMatrix4AsPoint(v, matrix) ==
  LET out == M4ApplyVector(matrix, v[1], v[2], v[3], One)
  IN <<out[1], out[2], out[3]>>

V3ApplyMatrix4(v, matrix) ==
  LET out == M4ApplyVector(matrix, v[1], v[2], v[3], Zero)
  IN <<out[1], out[2], out[3]>>

V2ApplyMatrix4(v, matrix) ==
  LET out == M4ApplyVector(matrix, v[1], v[2], Zero, Zero)
  IN <<out[1], out[2]>>

V1ApplyMatrix4(v, matrix) ==
  LET out == M4ApplyVector(matrix, v[1], Zero, Zero, Zero)
  IN <<out[1]>>

V3ApplyMatrix3(v, matrix) == M3ApplyVector(matrix, v[1], v[2], v[3])

\* VectorN.applyQuaternion: the scratch matrix is set by setRotation(quaternion)
V4ApplyQuaternion(v, quaternion) == V4ApplyMatrix4(v, M4SetRotation(quaternion))

V3ApplyQuaternion(v, quaternion) == V3ApplyMatrix4(v, M4SetRotation(quaternion))

-----------------------------------------------------------------------------
(* State *)

VARIABLES
  mat4,         \* the caller's Matrix4 instances: [M4Ids -> elements]
  M4tmpMatrix,  \* Matrix4.tmpMatrix, the scratch matrix of class Matrix4
  M4tmpVector,  \* Matrix4.tmpVector, the scratch vector of class Matrix4
  mat3,         \* the caller's Matrix3 instances: [M3Ids -> elements]
  M3tmpMatrix,  \* Matrix3.tmpMatrix
  M3tmpVector,  \* Matrix3.tmpVector
  quat,         \* the caller's Quaternion instances: [QIds -> <<a, b, c, d>>]
  Qtemporary,   \* Quaternion.temporary
  vec1,         \* a Vector1 instance: <<x>>
  vec2,         \* a Vector2 instance: <<x, y>>
  vec3,         \* the caller's Vector3 instances: [V3Ids -> <<x, y, z>>]
  vec4,         \* a Vector4 instance: <<x, y, z, w>>
  VtmpMatrix3,  \* VectorN.tmpMatrix3 for N = 1, 2, 3
  VtmpMatrix4,  \* VectorN.tmpMatrix4 for N = 1, 2, 3, 4
  bind,         \* which object each of the caller's names refers to
  gen,          \* the caller's range() iterators: [GenIds -> generator state]
  polar,        \* a PolarCoordinate3 instance: [phi, theta, radius]
  thread,       \* divide calls run step by step: [ThreadIds -> position]
  calls,        \* history: one record per completed call, oldest first
  budget        \* number of calls still to be explored in this run

vars == << mat4, M4tmpMatrix, M4tmpVector, mat3, M3tmpMatrix, M3tmpVector,
           quat, Qtemporary, vec1, vec2, vec3, vec4, VtmpMatrix3, VtmpMatrix4,
           bind, gen, polar, thread, calls, budget >>

matrixVars == << mat4, M4tmpMatrix, M4tmpVector, mat3, M3tmpMatrix, M3tmpVector >>
vectorVars == << vec1, vec2, vec3, vec4, VtmpMatrix3, VtmpMatrix4 >>
quatVars == << quat, Qtemporary >>

M4Ids == {"a", "b"}
M3Ids == {"a", "b"}
QIds == {"p", "q"}
V3Ids == {"v", "o"}
GenIds == {"g", "h"}
\* each logical thread of control has a receiver of its own
ThreadIds == {"a", "b"}

\* number of calls explored from an initial state
MaxOps == 2
\* calls are explored on operands whose elements are n/d (or (n + m*sqrt 2)/d)
\* with |n|, |m| <= MaxNum and d <= MaxDen, and on the initial operands
MaxNum == 64
MaxDen == 8

InRange(x) ==
  /\ IsFinite(x)
  /\ Abs(x[1]) <= MaxNum
  /\ Abs(x[2]) <= MaxNum
  /\ x[3] <= MaxDen

AllInRange(t) == \A i \in DOMAIN t : InRange(t[i])

\* every name of the caller refers to an object of its own
DistinctObjects ==
  [m4 |-> [n \in M4Ids |-> n], m3 |-> [n \in M3Ids |-> n],
   q |-> [n \in QIds |-> n], v3 |-> [n \in V3Ids |-> n]]

\* no range() iterator has been created
NoGenerators ==
  [g \in GenIds |-> [stop |-> 0, start |-> 0, step |-> 0, pc |-> "none",
                     i |-> 0, asked |-> 0, out |-> <<>>, completed |-> {}]]

\* no divide call is in progress
NoThreads ==
  [t \in ThreadIds |-> [pc |-> "idle", other |-> Identity4, pre |-> Identity4,
                        alone |-> TRUE, ret |-> "none"]]

\* The scratch instances are created on first use as identity()/zero(); as
\* nothing else can reach them, they are modelled as existing from the start.
ScratchObjects ==
  /\ M4tmpMatrix = Identity4
  /\ M4tmpVector = <<Zero, Zero, Zero, Zero>>
  /\ M3tmpMatrix = Identity3
  /\ M3tmpVector = <<Zero, Zero, Zero>>
  /\ Qtemporary = QIdentity
  /\ VtmpMatrix3 = [n \in 1..3 |-> Identity3]
  /\ VtmpMatrix4 = [n \in 1..4 |-> Identity4]

\* the scratch instances, and nothing yet made of the other classes
ScratchInit ==
  /\ ScratchObjects
  /\ bind = DistinctObjects
  /\ gen = NoGenerators
  /\ polar = [phi |-> 0, theta |-> 0, radius |-> One]
  /\ thread = NoThreads

\* the record appended to calls: receiver id, argument id ("" when the
\* argument is not one of the modelled instances), the values of receiver and
\* argument when the call started, and "this" or "null" for what it returned
Log(op, recv, argid, pre, arg, ret) ==
  /\ budget' = budget - 1
  /\ calls' = Append(calls, [op |-> op, recv |-> recv, argid |-> argid,
                             pre |-> pre, arg |-> arg, ret |-> ret])

\* a call of the matrix, vector and quaternion classes
Record(op, recv, argid, pre, arg, ret) ==
  /\ Log(op, recv, argid, pre, arg, ret)
  /\ UNCHANGED << gen, polar, thread >>

\* a call that creates no object for the caller to name
Call(op, recv, argid, pre, arg, ret) ==
  /\ Record(op, recv, argid, pre, arg, ret)
  /\ UNCHANGED bind

\* a further call is explored
MoreCalls == budget > 0

last == calls[Len(calls)]
LastIs(op) == Len(calls) > 0 /\ last.op = op

-----------------------------------------------------------------------------
(* Inputs *)

Seq16 == [i \in 1..16 |-> R(i)]
Dense4 ==
  << R(0), R(2), R(1), R(1),   R(2), R(0), R(0), R(1),
     R(-1), R(0), R(2), R(1),  R(0), R(-1), R(2), R(1) >>
\* determinant 2^-30: not zero, below EPSILON
Tiny4 ==
  [i \in 1..16 |-> IF i \in {1, 6, 11} THEN Frac(1, 1024)
                   ELSE IF i = 16 THEN One ELSE Zero]
Mat4In == <<Identity4, Zero4, Seq16, Dense4, Tiny4>>
Mat4Inputs == {Mat4In[i] : i \in DOMAIN Mat4In}

Seq9 == [i \in 1..9 |-> R(i)]
Dense3 == << R(1), R(1), R(-1),  R(2), R(1), R(0),  R(2), R(-1), R(2) >>
Tiny3 == [i \in 1..9 |-> IF i \in {1, 5, 9} THEN Frac(1, 1024) ELSE Zero]
Mat3In == <<Identity3, Zero3, Seq9, Dense3, Tiny3>>
Mat3Inputs == {Mat3In[i] : i \in DOMAIN Mat3In}

Operand4(M) == IF M \in Mat4Inputs THEN TRUE ELSE AllInRange(M)
Operand3(M) == IF M \in Mat3Inputs THEN TRUE ELSE AllInRange(M)

-----------------------------------------------------------------------------
(* Matrix4 calls *)

\* multiply on the objects themselves: objects maps each instance to its
\* elements, t is the receiver and o the argument, possibly the same
\* instance.  Both element lists are destructured into locals before the
\* first element of the receiver is assigned.
\* mutant of M4MultiplyStored: the elements of other are read when they are
\* used, after the elements computed so far have been stored
RECURSIVE M4StoreFrom(_, _, _, _, _)
M4StoreFrom(objects, a, t, o, i) ==
  IF i > 16 THEN objects
  ELSE M4StoreFrom([objects EXCEPT ![t][i] = M4Multiply(a, objects[o])[i]],
                   a, t, o, i + 1)

M4MultiplyStoredEarly(objects, t, o) == M4StoreFrom(objects, objects[t], t, o, 1)

\* t.multiply(o): the elements of every instance afterwards
M4MultiplyStored(objects, t, o) ==
  LET a == objects[t]
      b == objects[o]
  IN [objects EXCEPT ![t] = M4Multiply(a, b)]

M3MultiplyStored(objects, t, o) ==
  LET a == objects[t]
      b == objects[o]
  IN [objects EXCEPT ![t] = M3Multiply(a, b)]

QMultiplyStored(objects, t, o) ==
  LET this == objects[t]
      other == objects[o]
  IN [objects EXCEPT ![t] = QMultiply(this, other)]

\* mutant of M4DivideStored: other itself is inverted, not a copy of it
M4DivideInvertingOther(objects, t, o) ==
  [objects EXCEPT ![o] = M4Inverse(objects[o]),
                  ![t] = M4Multiply(objects[t], M4Inverse(objects[o]))]

\* t.divide(o) with o invertible: the elements of every instance afterwards;
\* other is copied to the scratch instance, which is inverted and multiplied
\* onto the receiver
M4DivideStored(objects, t, o) ==
  [objects EXCEPT ![t] = M4Multiply(objects[t], M4Inverse(objects[o]))]

M3DivideStored(objects, t, o) ==
  [objects EXCEPT ![t] = M3Multiply(objects[t], M3Inverse(objects[o]))]

QDivideStored(objects, t, o) ==
  [objects EXCEPT ![t] = QMultiply(objects[t], QInverse(objects[o]))]

\* t.multiply(o)
M4MultiplyCall(t, o) ==
  /\ MoreCalls
  /\ Operand4(mat4[t]) /\ Operand4(mat4[o])
  /\ mat4' = M4MultiplyStored(mat4, t, o)
  /\ Call("M4.multiply", t, o, mat4[t], mat4[o], "this")
  /\ UNCHANGED << M4tmpMatrix, M4tmpVector, mat3, M3tmpMatrix, M3tmpVector,
                  quatVars, vectorVars >>

\* t.invert()
M4InvertCall(t) ==
  /\ MoreCalls
  /\ Operand4(mat4[t])
  /\ IF M4InvertFails(mat4[t])
       THEN /\ mat4' = mat4
            /\ Call("M4.invert", t, "", mat4[t], <<>>, "null")
       ELSE /\ mat4' = [mat4 EXCEPT ![t] = M4Inverse(mat4[t])]
            /\ Call("M4.invert", t, "", mat4[t], <<>>, "this")
  /\ UNCHANGED << M4tmpMatrix, M4tmpVector, mat3, M3tmpMatrix, M3tmpVector,
                  quatVars, vectorVars >>

\* t.divide(o): tmpMatrix.copy(other); tmpMatrix.invert(); this.multiply(tmpMatrix)
M4DivideCall(t, o) ==
  /\ MoreCalls
  /\ Operand4(mat4[t]) /\ Operand4(mat4[o])
  /\ IF M4InvertFails(mat4[o])
       THEN /\ M4tmpMatrix' = mat4[o]
            /\ mat4' = mat4
            /\ Call("M4.divide", t, o, mat4[t], mat4[o], "null")
       ELSE /\ M4tmpMatrix' = M4Inverse(mat4[o])
            /\ mat4' = M4DivideStored(mat4, t, o)
            /\ Call("M4.divide", t, o, mat4[t], mat4[o], "this")
  /\ UNCHANGED << M4tmpVector, mat3, M3tmpMatrix, M3tmpVector,
                  quatVars, vectorVars >>

-----------------------------------------------------------------------------
(* Matrix3 calls *)

\* t.multiply(o)
M3MultiplyCall(t, o) ==
  /\ MoreCalls
  /\ Operand3(mat3[t]) /\ Operand3(mat3[o])
  /\ mat3' = M3MultiplyStored(mat3, t, o)
  /\ Call("M3.multiply", t, o, mat3[t], mat3[o], "this")
  /\ UNCHANGED << mat4, M4tmpMatrix, M4tmpVector, M3tmpMatrix, M3tmpVector,
                  quatVars, vectorVars >>

\* t.invert()
M3InvertCall(t) ==
  /\ MoreCalls
  /\ Operand3(mat3[t])
  /\ IF M3InvertFails(mat3[t])
       THEN /\ mat3' = mat3
            /\ Call("M3.invert", t, "", mat3[t], <<>>, "null")
       ELSE /\ mat3' = [mat3 EXCEPT ![t] = M3Inverse(mat3[t])]
            /\ Call("M3.invert", t, "", mat3[t], <<>>, "this")
  /\ UNCHANGED << mat4, M4tmpMatrix, M4tmpVector, M3tmpMatrix, M3tmpVector,
                  quatVars, vectorVars >>

\* mutant of M3DivideCall: the result of invert() is not tested
M3DivideCallUnchecked(t, o) ==
  /\ MoreCalls
  /\ Operand3(mat3[t]) /\ Operand3(mat3[o])
  /\ M3tmpMatrix' = M3Inverse(mat3[o])
  /\ mat3' = [mat3 EXCEPT ![t] = M3Multiply(mat3[t], M3Inverse(mat3[o]))]
  /\ Call("M3.divide", t, o, mat3[t], mat3[o], "this")
  /\ UNCHANGED << mat4, M4tmpMatrix, M4tmpVector, M3tmpVector,
                  quatVars, vectorVars >>

\* t.divide(o)
M3DivideCall(t, o) ==
  /\ MoreCalls
  /\ Operand3(mat3[t]) /\ Operand3(mat3[o])
  /\ IF M3InvertFails(mat3[o])
       THEN /\ M3tmpMatrix' = mat3[o]
            /\ mat3' = mat3
            /\ Call("M3.divide", t, o, mat3[t], mat3[o], "null")
       ELSE /\ M3tmpMatrix' = M3Inverse(mat3[o])
            /\ mat3' = M3DivideStored(mat3, t, o)
            /\ Call("M3.divide", t, o, mat3[t], mat3[o], "this")
  /\ UNCHANGED << mat4, M4tmpMatrix, M4tmpVector, M3tmpVector,
                  quatVars, vectorVars >>

-----------------------------------------------------------------------------
(* SpecInv: products, inverses and quotients of Matrix3 and Matrix4.  The   *)
(* instances a and b of both orders are constructed from the inputs.       *)

RestInit ==
  /\ quat = [i \in QIds |-> QIdentity]
  /\ vec1 = <<Zero>>
  /\ vec2 = <<Zero, Zero>>
  /\ vec3 = [i \in V3Ids |-> <<Zero, Zero, Zero>>]
  /\ vec4 = <<Zero, Zero, Zero, Zero>>
  /\ calls = <<>>

InitInv ==
  /\ ScratchInit
  /\ RestInit
  /\ budget = MaxOps
  /\ \E i, j \in DOMAIN Mat4In :
        /\ mat4 = [id \in M4Ids |-> IF id = "a" THEN Mat4In[i] ELSE Mat4In[j]]
        /\ mat3 = [id \in M3Ids |-> IF id = "a" THEN Mat3In[i] ELSE Mat3In[j]]

NextInv ==
  \/ \E o \in M4Ids : M4MultiplyCall("a", o)
  \/ M4InvertCall("a")
  \/ \E o \in M4Ids : M4DivideCall("a", o)
  \/ \E o \in M3Ids : M3MultiplyCall("a", o)
  \/ M3InvertCall("a")
  \/ \E o \in M3Ids : M3DivideCall("a", o)

SpecInv == InitInv /\ [][NextInv]_vars

-----------------------------------------------------------------------------
(* Claims checked under SpecInv *)

V4Probes ==
  { <<One, Zero, Zero, Zero>>, <<Zero, One, Zero, Zero>>,
    <<Zero, Zero, One, Zero>>, <<Zero, Zero, Zero, One>>,
    <<R(1), R(2), R(3), R(4)>> }

V3Probes ==
  { <<One, Zero, Zero>>, <<Zero, One, Zero>>, <<Zero, Zero, One>>,
    <<R(1), R(2), R(3)>> }

\* C2: after a.multiply(b), applying a to any vector gives what applying b
\* and then the original a gives, and b (when another object) is unchanged;
\* for Matrix4 with Vector4.applyMatrix4 and Matrix3 with Vector3.applyMatrix3.
C2_MultiplyAppliesRightToLeft ==
  /\ LastIs("M4.multiply") =>
       /\ \A v \in V4Probes :
            V4ApplyMatrix4(v, mat4[last.recv])
              = V4ApplyMatrix4(V4ApplyMatrix4(v, last.arg), last.pre)
       /\ last.argid # last.recv => mat4[last.argid] = last.arg
  /\ LastIs("M3.multiply") =>
       /\ \A v \in V3Probes :
            V3ApplyMatrix3(v, mat3[last.recv])
              = V3ApplyMatrix3(V3ApplyMatrix3(v, last.arg), last.pre)
       /\ last.argid # last.recv => mat3[last.argid] = last.arg

\* a product of two different non-commuting matrices of each order was formed
C2_Witness ==
  /\ \E i \in DOMAIN calls :
       /\ calls[i].op = "M4.multiply"
       /\ calls[i].argid = "b"
       /\ M4Multiply(calls[i].pre, calls[i].arg) # M4Multiply(calls[i].arg, calls[i].pre)
  /\ \E i \in DOMAIN calls :
       /\ calls[i].op = "M3.multiply"
       /\ calls[i].argid = "b"
       /\ M3Multiply(calls[i].pre, calls[i].arg) # M3Multiply(calls[i].arg, calls[i].pre)

\* C3: invert() on a matrix whose determinant is 0 returns null and leaves
\* every element of the receiver as it was (Matrix3 and Matrix4).
C3_SingularInvertIsNullAndNoOp ==
  /\ (LastIs("M4.invert") /\ M4Determinant(last.pre) = Zero) =>
       (last.ret = "null" /\ mat4[last.recv] = last.pre)
  /\ (LastIs("M3.invert") /\ M3Determinant(last.pre) = Zero) =>
       (last.ret = "null" /\ mat3[last.recv] = last.pre)

\* invert() was called on a singular matrix that is not the zero matrix,
\* for both orders
C3_Witness ==
  /\ \E i \in DOMAIN calls :
       /\ calls[i].op = "M4.invert"
       /\ M4Determinant(calls[i].pre) = Zero
       /\ calls[i].pre # Zero4
  /\ \E i \in DOMAIN calls :
       /\ calls[i].op = "M3.invert"
       /\ M3Determinant(calls[i].pre) = Zero
       /\ calls[i].pre # Zero3

\* C4: a.divide(b) with a singular b returns null and leaves every element of
\* the receiver a as it was (Matrix3 and Matrix4).
C4_DivideBySingularIsNullAndNoOp ==
  /\ (LastIs("M4.divide") /\ M4Determinant(last.arg) = Zero) =>
       (last.ret = "null" /\ mat4[last.recv] = last.pre)
  /\ (LastIs("M3.divide") /\ M3Determinant(last.arg) = Zero) =>
       (last.ret = "null" /\ mat3[last.recv] = last.pre)

\* a matrix other than the identity was divided by a singular matrix other
\* than the zero matrix, for both orders
C4_Witness ==
  /\ \E i \in DOMAIN calls :
       /\ calls[i].op = "M4.divide"
       /\ M4Determinant(calls[i].arg) = Zero
       /\ calls[i].arg # Zero4
       /\ calls[i].pre # Identity4
  /\ \E i \in DOMAIN calls :
       /\ calls[i].op = "M3.divide"
       /\ M3Determinant(calls[i].arg) = Zero
       /\ calls[i].arg # Zero3
       /\ calls[i].pre # Identity3

-----------------------------------------------------------------------------
(* Matrix4 transform builders, and the vector calls that apply a matrix *)

\* t.setTranslation(translation)
M4SetTranslationCall(t, translation) ==
  /\ MoreCalls
  /\ mat4' = [mat4 EXCEPT ![t] = M4SetTranslation(mat4[t], translation)]
  /\ Call("M4.setTranslation", t, "", mat4[t], translation, "this")
  /\ UNCHANGED << M4tmpMatrix, M4tmpVector, mat3, M3tmpMatrix, M3tmpVector,
                  quatVars, vectorVars >>

\* t.setRotation(rotation)
M4SetRotationCall(t, rotation) ==
  /\ MoreCalls
  /\ mat4' = [mat4 EXCEPT ![t] = M4SetRotation(rotation)]
  /\ Call("M4.setRotation", t, "", mat4[t], rotation, "this")
  /\ UNCHANGED << M4tmpMatrix, M4tmpVector, mat3, M3tmpMatrix, M3tmpVector,
                  quatVars, vectorVars >>

\* t.setScale(scale)
M4SetScaleCall(t, scale) ==
  /\ MoreCalls
  /\ mat4' = [mat4 EXCEPT ![t] = M4SetScale(scale)]
  /\ Call("M4.setScale", t, "", mat4[t], scale, "this")
  /\ UNCHANGED << M4tmpMatrix, M4tmpVector, mat3, M3tmpMatrix, M3tmpVector,
                  quatVars, vectorVars >>

\* t.multiplyScale(scale): this.multiply(Matrix4.tmpMatrix.setScale(scale))
M4MultiplyScaleCall(t, scale) ==
  /\ MoreCalls
  /\ M4tmpMatrix' = M4SetScale(scale)
  /\ mat4' = [mat4 EXCEPT ![t] = M4Multiply(mat4[t], M4tmpMatrix')]
  /\ Call("M4.multiplyScale", t, "", mat4[t], scale, "this")
  /\ UNCHANGED << M4tmpVector, mat3, M3tmpMatrix, M3tmpVector,
                  quatVars, vectorVars >>

\* t.multiplyTranslation(position):
\* this.multiply(Matrix4.tmpMatrix.setTranslation(position))
M4MultiplyTranslationCall(t, position) ==
  /\ MoreCalls
  /\ M4tmpMatrix' = M4SetTranslation(M4tmpMatrix, position)
  /\ mat4' = [mat4 EXCEPT ![t] = M4Multiply(mat4[t], M4tmpMatrix')]
  /\ Call("M4.multiplyTranslation", t, "", mat4[t], position, "this")
  /\ UNCHANGED << M4tmpVector, mat3, M3tmpMatrix, M3tmpVector,
                  quatVars, vectorVars >>

\* t.multiplyRotation(rotation):
\* this.multiply(Matrix4.tmpMatrix.setRotation(rotation))
M4MultiplyRotationCall(t, rotation) ==
  /\ MoreCalls
  /\ M4tmpMatrix' = M4SetRotation(rotation)
  /\ mat4' = [mat4 EXCEPT ![t] = M4Multiply(mat4[t], M4tmpMatrix')]
  /\ Call("M4.multiplyRotation", t, "", mat4[t], rotation, "this")
  /\ UNCHANGED << M4tmpVector, mat3, M3tmpMatrix, M3tmpVector,
                  quatVars, vectorVars >>

\* vec3[v].applyMatrix4(mat4[m])
V3ApplyMatrix4Call(v, m) ==
  /\ MoreCalls
  /\ VtmpMatrix4' = [VtmpMatrix4 EXCEPT ![3] = mat4[m]]
  /\ M4tmpVector' = M4ApplyVector(mat4[m], vec3[v][1], vec3[v][2], vec3[v][3], Zero)
  /\ vec3' = [vec3 EXCEPT ![v] = V3ApplyMatrix4(vec3[v], mat4[m])]
  /\ Call("V3.applyMatrix4", v, m, vec3[v], mat4[m], "this")
  /\ UNCHANGED << mat4, M4tmpMatrix, mat3, M3tmpMatrix, M3tmpVector,
                  quatVars, vec1, vec2, vec4, VtmpMatrix3 >>

-----------------------------------------------------------------------------
(* SpecBuild: a model matrix is built from Matrix4.identity() with the     *)
(* transform builders and applied to a vertex.                             *)

\* number of calls explored from Matrix4.identity()
MaxBuildOps == 4

Vec3Args == { <<R(1), R(2), R(3)>>, <<R(2), R(3), R(4)>> }
ScaleArgs == { <<R(2), R(3), R(4)>> }
Vec3Inputs == { <<One, One, One>>, <<R(1), R(2), R(3)>> }

AxisX == <<One, Zero, Zero>>
AxisZ == <<Zero, Zero, One>>
\* Quaternion.fromAxisAndAngle(axis, Math.PI / 2)
QuarterTurnX == QFromAxisAndAngle(AxisX, 1)
QuarterTurnZ == QFromAxisAndAngle(AxisZ, 1)

RotationArgs == { QuarterTurnZ }

InitBuild ==
  /\ ScratchInit
  /\ mat4 = [id \in M4Ids |-> Identity4]
  /\ mat3 = [id \in M3Ids |-> Identity3]
  /\ quat = [i \in QIds |-> QIdentity]
  /\ vec1 = <<Zero>>
  /\ vec2 = <<Zero, Zero>>
  /\ \E v \in Vec3Inputs : vec3 = [i \in V3Ids |-> IF i = "v" THEN v ELSE <<Zero, Zero, Zero>>]
  /\ vec4 = <<Zero, Zero, Zero, Zero>>
  /\ calls = <<>>
  /\ budget = MaxBuildOps

NextBuild ==
  \/ \E t \in Vec3Args : M4SetTranslationCall("a", t)
  \/ \E q \in RotationArgs : M4SetRotationCall("a", q)
  \/ \E s \in ScaleArgs : M4SetScaleCall("a", s)
  \/ \E t \in Vec3Args : M4MultiplyTranslationCall("a", t)
  \/ \E q \in RotationArgs : M4MultiplyRotationCall("a", q)
  \/ \E s \in ScaleArgs : M4MultiplyScaleCall("a", s)
  \/ V3ApplyMatrix4Call("v", "a")

SpecBuild == InitBuild /\ [][NextBuild]_vars

-----------------------------------------------------------------------------
(* Claims checked under SpecBuild *)

\* Hamilton's algebra on the units 1, i, j, k (numbered 1 to 4):
\* i^2 = j^2 = k^2 = ijk = -1.  UnitIndex[m][n] is the unit that the product
\* of unit m by unit n is a multiple of, UnitSign[m][n] the sign.
UnitIndex ==
  << <<1, 2, 3, 4>>,
     <<2, 1, 4, 3>>,
     <<3, 4, 1, 2>>,
     <<4, 3, 2, 1>> >>

UnitSign ==
  << <<1,  1,  1,  1>>,
     <<1, -1,  1, -1>>,
     <<1, -1, -1,  1>>,
     <<1,  1, -1, -1>> >>

\* the product p * q by bilinearity over the table of units
HamiltonProduct(p, q) ==
  [n \in 1..4 |->
     LET J(m) == CHOOSE j \in 1..4 : UnitIndex[m][j] = n
         Term(m) == Mul(R(UnitSign[m][J(m)]), Mul(p[m], q[J(m)]))
     IN Add(Add(Add(Term(1), Term(2)), Term(3)), Term(4))]

\* the rotation that q represents under the Hamilton convention:
\* the vector part of q * (0, v) * q^-1, with q^-1 = conjugate(q) / |q|^2
HamiltonRotate(q, v) ==
  LET n2 == QSquaredNorm(q)
      inv == <<Div(q[1], n2), Div(Neg(q[2]), n2), Div(Neg(q[3]), n2), Div(Neg(q[4]), n2)>>
      out == HamiltonProduct(HamiltonProduct(q, <<Zero, v[1], v[2], v[3]>>), inv)
  IN <<out[2], out[3], out[4]>>

ScaleBy(s, v) == <<Mul(s[1], v[1]), Mul(s[2], v[2]), Mul(s[3], v[3])>>
TranslateBy(p, v) == <<Add(p[1], v[1]), Add(p[2], v[2]), Add(p[3], v[3])>>

\* the calls made so far are exactly
\* model.multiplyTranslation(p).multiplyRotation(r).multiplyScale(s) on the
\* model matrix created as identity(), then vertex.applyMatrix4(model)
ModelMatrixApplied ==
  /\ Len(calls) = 4
  /\ calls[1].op = "M4.multiplyTranslation"
  /\ calls[2].op = "M4.multiplyRotation"
  /\ calls[3].op = "M4.multiplyScale"
  /\ calls[4].op = "V3.applyMatrix4"

\* C1: after identity().multiplyTranslation(p).multiplyRotation(r)
\* .multiplyScale(s), vertex.applyMatrix4(model) scales the vertex, then
\* rotates it, then translates it; p = (1,2,3), r = a quarter turn about z,
\* s = (2,3,4) take the vertex (1,1,1) to (-2, 4, 7).
C1_ModelMatrixScalesRotatesTranslates ==
  ModelMatrixApplied =>
    /\ vec3["v"] = TranslateBy(calls[1].arg,
                     HamiltonRotate(calls[2].arg,
                       ScaleBy(calls[3].arg, calls[4].pre)))
    /\ ( /\ calls[1].arg = <<R(1), R(2), R(3)>>
         /\ calls[2].arg = QuarterTurnZ
         /\ calls[3].arg = <<R(2), R(3), R(4)>>
         /\ calls[4].pre = <<One, One, One>> )
       => vec3["v"] = <<R(-2), R(4), R(7)>>

\* the translation matrix of t: the identity with t in elements 12 to 14
TranslationMatrix(t) ==
  [i \in 1..16 |-> IF i = 13 THEN t[1] ELSE IF i = 14 THEN t[2]
                   ELSE IF i = 15 THEN t[3] ELSE Identity4[i]]

\* C6: after setTranslation(t) the receiver is the identity with t.x, t.y,
\* t.z in elements 12, 13, 14, whatever it held before.
C6_SetTranslationIsAbsolute ==
  LastIs("M4.setTranslation") => mat4[last.recv] = TranslationMatrix(last.arg)

-----------------------------------------------------------------------------
(* Vector calls *)

\* vec4.applyMatrix4(mat4[m])
V4ApplyMatrix4Call(m) ==
  /\ MoreCalls
  /\ VtmpMatrix4' = [VtmpMatrix4 EXCEPT ![4] = mat4[m]]
  /\ M4tmpVector' = V4ApplyMatrix4(vec4, mat4[m])
  /\ vec4' = M4tmpVector'
  /\ Call("V4.applyMatrix4", "", m, vec4, mat4[m], "this")
  /\ UNCHANGED << mat4, M4tmpMatrix, mat3, M3tmpMatrix, M3tmpVector,
                  quatVars, vec1, vec2, vec3, VtmpMatrix3 >>

\* vec2.applyMatrix4(mat4[m])
V2ApplyMatrix4Call(m) ==
  /\ MoreCalls
  /\ VtmpMatrix4' = [VtmpMatrix4 EXCEPT ![2] = mat4[m]]
  /\ M4tmpVector' = M4ApplyVector(mat4[m], vec2[1], vec2[2], Zero, Zero)
  /\ vec2' = V2ApplyMatrix4(vec2, mat4[m])
  /\ Call("V2.applyMatrix4", "", m, vec2, mat4[m], "this")
  /\ UNCHANGED << mat4, M4tmpMatrix, mat3, M3tmpMatrix, M3tmpVector,
                  quatVars, vec1, vec3, vec4, VtmpMatrix3 >>

\* vec1.applyMatrix4(mat4[m])
V1ApplyMatrix4Call(m) ==
  /\ MoreCalls
  /\ VtmpMatrix4' = [VtmpMatrix4 EXCEPT ![1] = mat4[m]]
  /\ M4tmpVector' = M4ApplyVector(mat4[m], vec1[1], Zero, Zero, Zero)
  /\ vec1' = V1ApplyMatrix4(vec1, mat4[m])
  /\ Call("V1.applyMatrix4", "", m, vec1, mat4[m], "this")
  /\ UNCHANGED << mat4, M4tmpMatrix, mat3, M3tmpMatrix, M3tmpVector,
                  quatVars, vec2, vec3, vec4, VtmpMatrix3 >>

\* vec4.applyQuaternion(quaternion)
V4ApplyQuaternionCall(quaternion) ==
  /\ MoreCalls
  /\ VtmpMatrix4' = [VtmpMatrix4 EXCEPT ![4] = M4SetRotation(quaternion)]
  /\ M4tmpVector' = V4ApplyQuaternion(vec4, quaternion)
  /\ vec4' = M4tmpVector'
  /\ Call("V4.applyQuaternion", "", "", vec4, quaternion, "this")
  /\ UNCHANGED << mat4, M4tmpMatrix, mat3, M3tmpMatrix, M3tmpVector,
                  quatVars, vec1, vec2, vec3, VtmpMatrix3 >>

\* vec3[v].applyQuaternion(quaternion)
V3ApplyQuaternionCall(v, quaternion) ==
  /\ MoreCalls
  /\ VtmpMatrix4' = [VtmpMatrix4 EXCEPT ![3] = M4SetRotation(quaternion)]
  /\ M4tmpVector' = M4ApplyVector(M4SetRotation(quaternion),
                                  vec3[v][1], vec3[v][2], vec3[v][3], Zero)
  /\ vec3' = [vec3 EXCEPT ![v] = V3ApplyQuaternion(vec3[v], quaternion)]
  /\ Call("V3.applyQuaternion", v, "", vec3[v], quaternion, "this")
  /\ UNCHANGED << mat4, M4tmpMatrix, mat3, M3tmpMatrix, M3tmpVector,
                  quatVars, vec1, vec2, vec4, VtmpMatrix3 >>

-----------------------------------------------------------------------------
(* SpecVec: vectors of every dimension are transformed by a matrix and by  *)
(* a quaternion.                                                           *)

\* number of calls explored from the constructed vectors and matrix
MaxVecOps == 3

\* translate by (5, 6, 7) after a scale by (2, 3, 4)
Affine4 ==
  << R(2), Zero, Zero, Zero,  Zero, R(3), Zero, Zero,
     Zero, Zero, R(4), Zero,  R(5), R(6), R(7), One >>

VecMat4Inputs == {Seq16, Affine4}

QuatArgs == { QuarterTurnZ, QuarterTurnX, <<R(1), R(2), R(3), R(4)>> }

InitVec ==
  /\ ScratchInit
  /\ \E M \in VecMat4Inputs : mat4 = [id \in M4Ids |-> IF id = "a" THEN M ELSE Identity4]
  /\ mat3 = [id \in M3Ids |-> Identity3]
  /\ quat = [i \in QIds |-> QIdentity]
  /\ vec1 = <<R(3)>>
  /\ vec2 = <<R(1), R(2)>>
  /\ \E v \in {<<One, One, One>>, <<Zero, One, Zero>>} :
        vec3 = [i \in V3Ids |-> IF i = "v" THEN v ELSE <<Zero, Zero, Zero>>]
  /\ vec4 = <<One, One, One, One>>
  /\ calls = <<>>
  /\ budget = MaxVecOps

NextVec ==
  \/ \E q \in QuatArgs : M4SetRotationCall("a", q)
  \/ V4ApplyMatrix4Call("a")
  \/ V3ApplyMatrix4Call("v", "a")
  \/ V2ApplyMatrix4Call("a")
  \/ V1ApplyMatrix4Call("a")
  \/ \E q \in QuatArgs : V4ApplyQuaternionCall(q)
  \/ \E q \in QuatArgs : V3ApplyQuaternionCall("v", q)

SpecVec == InitVec /\ [][NextVec]_vars

-----------------------------------------------------------------------------
(* Claims checked under SpecVec *)

QIsZero(q) == q = <<Zero, Zero, Zero, Zero>>

\* C7: setRotation(q) followed by applying the matrix, and applyQuaternion(q),
\* rotate a vector as q does under the Hamilton convention (for q # 0, v goes
\* to the vector part of q * (0,v) * q^-1, w is kept); the quarter turn about
\* z takes (1,1,1,1) to (-1,1,1,1) and the one about x takes (0,1,0) to (0,0,1).
C7_RotationIsHamilton ==
  /\ (LastIs("M4.setRotation") /\ ~QIsZero(last.arg)) =>
       /\ \A v \in V3Probes :
            V3ApplyMatrix4(v, mat4[last.recv]) = HamiltonRotate(last.arg, v)
       /\ last.arg = QuarterTurnX =>
            V3ApplyMatrix4(<<Zero, One, Zero>>, mat4[last.recv]) = <<Zero, Zero, One>>
  /\ (LastIs("V4.applyQuaternion") /\ ~QIsZero(last.arg)) =>
       /\ <<vec4[1], vec4[2], vec4[3]>>
            = HamiltonRotate(last.arg, <<last.pre[1], last.pre[2], last.pre[3]>>)
       /\ vec4[4] = last.pre[4]
       /\ (last.arg = QuarterTurnZ /\ last.pre = <<One, One, One, One>>) =>
            vec4 = <<R(-1), One, One, One>>
  /\ (LastIs("V3.applyQuaternion") /\ ~QIsZero(last.arg)) =>
       vec3[last.recv] = HamiltonRotate(last.arg, last.pre)

\* the matrix M with elements 12 to 15 replaced by t
WithLastColumn(M, t) == [i \in 1..16 |-> IF i > 12 THEN t[i - 12] ELSE M[i]]

LastColumns ==
  { <<Zero, Zero, Zero, One>>, <<R(1), R(2), R(3), One>>, <<R(-4), R(9), R(2), R(5)>> }

HasTranslation(M) == M[13] # Zero /\ M[14] # Zero /\ M[15] # Zero

C9_ApplyMatrix4IsColumnMajorProduct ==
  LastIs("V4.applyMatrix4") =>
    /\ \A r \in 0..3 :
         vec4[r + 1] = Add(Add(Add(Mul(E(last.arg, r), last.pre[1]),
                                   Mul(E(last.arg, 4 + r), last.pre[2])),
                               Mul(E(last.arg, 8 + r), last.pre[3])),
                           Mul(E(last.arg, 12 + r), last.pre[4]))
    /\ (last.pre = <<One, One, One, One>> /\ last.arg = Seq16) =>
         vec4 = <<R(28), R(32), R(36), R(40)>>

\* (1,1,1,1) was transformed by the matrix with elements 1..16
C9_Witness ==
  /\ LastIs("V4.applyMatrix4")
  /\ last.pre = <<One, One, One, One>>
  /\ last.arg = Seq16
  /\ vec4 = <<R(28), R(32), R(36), R(40)>>

-----------------------------------------------------------------------------
(* Quaternion calls *)

UnitI == <<Zero, One, Zero, Zero>>
UnitJ == <<Zero, Zero, One, Zero>>
UnitK == <<Zero, Zero, Zero, One>>
QZero == <<Zero, Zero, Zero, Zero>>

QuatInputs ==
  { UnitI, UnitJ, UnitK, QZero,
    <<One, One, One, One>>, <<R(1), R(2), R(3), R(4)>>, <<R(5), R(6), R(7), R(8)>> }

QOperand(q) == IF q \in QuatInputs THEN TRUE ELSE AllInRange(q)

\* quat[t].multiply(quat[o])
QMultiplyCall(t, o) ==
  /\ MoreCalls
  /\ QOperand(quat[t])
  /\ QOperand(quat[o])
  /\ quat' = QMultiplyStored(quat, t, o)
  /\ Call("Q.multiply", t, o, quat[t], quat[o], "this")
  /\ UNCHANGED << matrixVars, vectorVars, Qtemporary >>

\* quat[t].invert()
QInvertCall(t) ==
  /\ MoreCalls
  /\ QOperand(quat[t])
  /\ quat' = IF QInvertFails(quat[t]) THEN quat
             ELSE [quat EXCEPT ![t] = QInverse(quat[t])]
  /\ Call("Q.invert", t, "", quat[t], <<>>,
          IF QInvertFails(quat[t]) THEN "null" ELSE "this")
  /\ UNCHANGED << matrixVars, vectorVars, Qtemporary >>

\* quat[t].divide(quat[o])
QDivideCall(t, o) ==
  /\ MoreCalls
  /\ QOperand(quat[t])
  /\ QOperand(quat[o])
  /\ Qtemporary' = IF QInvertFails(quat[o]) THEN quat[o] ELSE QInverse(quat[o])
  /\ quat' = IF QInvertFails(quat[o]) THEN quat
             ELSE QDivideStored(quat, t, o)
  /\ Call("Q.divide", t, o, quat[t], quat[o],
          IF QInvertFails(quat[o]) THEN "null" ELSE "this")
  /\ UNCHANGED << matrixVars, vectorVars >>

\* quat[t].setAxisAndAngle(vec3[axis], k * (PI / 2)); the call returns nothing
QSetAxisAndAngleCall(t, axis, k) ==
  /\ MoreCalls
  /\ quat' = [quat EXCEPT ![t] = QSetAxisAndAngle(vec3[axis], k).q]
  /\ vec3' = [vec3 EXCEPT ![axis] = QSetAxisAndAngle(vec3[axis], k).axis]
  /\ Call("Q.setAxisAndAngle", t, axis, quat[t], vec3[axis], "void")
  /\ UNCHANGED << matrixVars, vec1, vec2, vec4, VtmpMatrix3, VtmpMatrix4, Qtemporary >>

\* quat[t] = Quaternion.fromAxisAndAngle(vec3[axis], k * (PI / 2))
QFromAxisAndAngleCall(t, axis, k) ==
  /\ MoreCalls
  /\ quat' = [quat EXCEPT ![t] = QFromAxisAndAngle(vec3[axis], k)]
  /\ vec3' = [vec3 EXCEPT ![axis] = QSetAxisAndAngle(vec3[axis], k).axis]
  /\ Call("Q.fromAxisAndAngle", t, axis, quat[t], vec3[axis], "new")
  /\ UNCHANGED << matrixVars, vec1, vec2, vec4, VtmpMatrix3, VtmpMatrix4, Qtemporary >>

-----------------------------------------------------------------------------
(* SpecQ: two quaternions are multiplied, inverted and divided, and set    *)
(* from an axis and an angle.                                              *)

\* axes: zero, a unit vector, two vectors of length 2 and 5
AxisInputs ==
  { <<Zero, Zero, Zero>>, <<Zero, Zero, One>>, <<R(2), Zero, Zero>>,
    <<R(3), R(4), Zero>> }

\* angles k * (PI / 2)
AngleInputs == {0, 1, 2}

InitQ ==
  /\ ScratchInit
  /\ vec1 = <<Zero>>
  /\ vec2 = <<Zero, Zero>>
  /\ \E axis \in AxisInputs :
        vec3 = [i \in V3Ids |-> IF i = "v" THEN axis ELSE <<Zero, Zero, Zero>>]
  /\ vec4 = <<Zero, Zero, Zero, Zero>>
  /\ calls = <<>>
  /\ mat4 = [id \in M4Ids |-> Identity4]
  /\ mat3 = [id \in M3Ids |-> Identity3]
  /\ \E p, q \in QuatInputs : quat = [i \in QIds |-> IF i = "p" THEN p ELSE q]
  /\ budget = MaxOps

NextQ ==
  \/ \E t, o \in QIds : QMultiplyCall(t, o)
  \/ \E t \in QIds : QInvertCall(t)
  \/ \E o \in QIds : QDivideCall("p", o)
  \/ \E k \in AngleInputs : QSetAxisAndAngleCall("p", "v", k)
  \/ \E k \in AngleInputs : QFromAxisAndAngleCall("q", "v", k)

SpecQ == InitQ /\ [][NextQ]_vars

-----------------------------------------------------------------------------
(* Claims checked under SpecQ *)

QNeg(q) == <<Neg(q[1]), Neg(q[2]), Neg(q[3]), Neg(q[4])>>

\* C10: p.multiply(q) sets p to the Hamilton product of the pre-call p and q:
\* i*j = k, j*i = -k, i*i = j*j = k*k = -1; an argument that is another
\* instance keeps its components.
C10_MultiplyIsHamiltonProduct ==
  LastIs("Q.multiply") =>
    /\ quat[last.recv] = HamiltonProduct(last.pre, last.arg)
    /\ last.recv # last.argid => quat[last.argid] = last.arg
    /\ (last.pre = UnitI /\ last.arg = UnitJ) => quat[last.recv] = UnitK
    /\ (last.pre = UnitJ /\ last.arg = UnitI) => quat[last.recv] = QNeg(UnitK)
    /\ (last.pre = last.arg /\ last.pre \in {UnitI, UnitJ, UnitK}) =>
         quat[last.recv] = QNeg(QIdentity)

\* i was multiplied by j and became k, and the product in the other order
\* is a different quaternion
C10_Witness ==
  /\ LastIs("Q.multiply")
  /\ last.pre = UnitI
  /\ last.arg = UnitJ
  /\ quat[last.recv] = UnitK
  /\ QMultiply(last.arg, last.pre) # quat[last.recv]

\* C11: invert() on a quaternion with squaredNorm() <= 0 returns null and
\* leaves the receiver as it was; p.divide(q) with such a q returns null and
\* leaves p as it was.
C11_ZeroNormInvertAndDivideAreNull ==
  /\ (LastIs("Q.invert") /\ Le(QSquaredNorm(last.pre), Zero)) =>
       /\ last.ret = "null"
       /\ quat[last.recv] = last.pre
  /\ (LastIs("Q.divide") /\ Le(QSquaredNorm(last.arg), Zero)) =>
       /\ last.ret = "null"
       /\ quat[last.recv] = last.pre

\* the zero quaternion was inverted, then a non-zero p was divided by it
C11_Witness ==
  /\ Len(calls) = 2
  /\ calls[1].op = "Q.invert" /\ calls[1].pre = QZero /\ calls[1].ret = "null"
  /\ calls[2].op = "Q.divide" /\ calls[2].arg = QZero /\ calls[2].ret = "null"
  /\ calls[2].pre # QZero
  /\ quat[calls[2].recv] = calls[2].pre
  /\ quat[calls[1].recv] = QZero

C13_ZeroAxisGivesIdentity ==
  ((LastIs("Q.setAxisAndAngle") \/ LastIs("Q.fromAxisAndAngle"))
     /\ last.arg = <<Zero, Zero, Zero>>) =>
       quat[last.recv] = QIdentity

\* setAxisAndAngle with the zero axis was called on a receiver that was not
\* the identity, and fromAxisAndAngle with the zero axis
C13_Witness ==
  /\ Len(calls) = 2
  /\ \E i, j \in 1..2 :
       /\ calls[i].op = "Q.setAxisAndAngle"
       /\ calls[i].arg = <<Zero, Zero, Zero>>
       /\ calls[i].pre # QIdentity
       /\ calls[j].op = "Q.fromAxisAndAngle"
       /\ calls[j].arg = <<Zero, Zero, Zero>>
  /\ quat["p"] = QIdentity
  /\ quat["q"] = QIdentity

-----------------------------------------------------------------------------
(* SpecNorm: vectors of every dimension are normalized.                    *)

\* vec1.normalize()
V1NormalizeCall ==
  /\ MoreCalls
  /\ vec1' = V1Normalize(vec1)
  /\ Call("V1.normalize", "", "", vec1, <<>>, "this")
  /\ UNCHANGED << matrixVars, quatVars, vec2, vec3, vec4, VtmpMatrix3, VtmpMatrix4 >>

\* vec2.normalize()
V2NormalizeCall ==
  /\ MoreCalls
  /\ vec2' = V2Normalize(vec2)
  /\ Call("V2.normalize", "", "", vec2, <<>>, "this")
  /\ UNCHANGED << matrixVars, quatVars, vec1, vec3, vec4, VtmpMatrix3, VtmpMatrix4 >>

\* vec3[v].normalize()
V3NormalizeCall(v) ==
  /\ MoreCalls
  /\ vec3' = [vec3 EXCEPT ![v] = V3Normalize(vec3[v])]
  /\ Call("V3.normalize", v, "", vec3[v], <<>>, "this")
  /\ UNCHANGED << matrixVars, quatVars, vec1, vec2, vec4, VtmpMatrix3, VtmpMatrix4 >>

\* vec4.normalize()
V4NormalizeCall ==
  /\ MoreCalls
  /\ vec4' = V4Normalize(vec4)
  /\ Call("V4.normalize", "", "", vec4, <<>>, "this")
  /\ UNCHANGED << matrixVars, quatVars, vec1, vec2, vec3, VtmpMatrix3, VtmpMatrix4 >>

\* vectors of length 0 and of rational length
Vec1Inputs == { <<Zero>>, <<R(3)>>, <<R(-2)>> }
Vec2Inputs == { <<Zero, Zero>>, <<R(3), R(4)>> }
Vec3NormInputs == { <<Zero, Zero, Zero>>, <<Zero, Zero, R(2)>>, <<R(3), R(4), Zero>> }
Vec4Inputs == { <<Zero, Zero, Zero, Zero>>, <<One, One, One, One>>, <<R(2), Zero, Zero, Zero>> }

InitNorm ==
  /\ ScratchInit
  /\ mat4 = [id \in M4Ids |-> Identity4]
  /\ mat3 = [id \in M3Ids |-> Identity3]
  /\ quat = [i \in QIds |-> QIdentity]
  /\ vec1 \in Vec1Inputs
  /\ vec2 \in Vec2Inputs
  /\ vec3 \in [V3Ids -> Vec3NormInputs]
  /\ vec4 \in Vec4Inputs
  /\ calls = <<>>
  /\ budget = MaxOps

NextNorm ==
  \/ V1NormalizeCall
  \/ V2NormalizeCall
  \/ \E v \in V3Ids : V3NormalizeCall(v)
  \/ V4NormalizeCall

SpecNorm == InitNorm /\ [][NextNorm]_vars

-----------------------------------------------------------------------------
(* Claims checked under SpecNorm *)

NoNaN(t) == \A i \in DOMAIN t : ~IsNaN(t[i])

\* C14: for Vector1, Vector2, Vector3 and Vector4, normalize() on a vector
\* whose length() is <= 0 leaves every component as it was (none becomes NaN)
\* and returns the receiver.
C14_NormalizeKeepsZeroVector ==
  /\ (LastIs("V1.normalize") /\ Le(V1Length(last.pre), Zero)) =>
       vec1 = last.pre /\ NoNaN(vec1) /\ last.ret = "this"
  /\ (LastIs("V2.normalize") /\ Le(V2Length(last.pre), Zero)) =>
       vec2 = last.pre /\ NoNaN(vec2) /\ last.ret = "this"
  /\ (LastIs("V3.normalize") /\ Le(V3Length(last.pre), Zero)) =>
       vec3[last.recv] = last.pre /\ NoNaN(vec3[last.recv]) /\ last.ret = "this"
  /\ (LastIs("V4.normalize") /\ Le(V4Length(last.pre), Zero)) =>
       vec4 = last.pre /\ NoNaN(vec4) /\ last.ret = "this"

-----------------------------------------------------------------------------
(* SpecClone: objects are cloned, the clone taking the caller's other name *)
(* of the class, and original and clone are mutated.                       *)

\* mutant of CloneTarget: clone() hands back the receiver itself
CloneTargetIsReceiver(ids, this) == this

\* clone(): the object returned is a new one; of the two objects the model
\* has of a class it is the one that `this` is not, which nothing refers to
\* once the name is rebound
CloneTarget(ids, this) == CHOOSE c \in ids : c # this

\* vec3 name d = (vec3 name s).clone(), d another name than s
V3CloneCall(s, d) ==
  /\ MoreCalls
  /\ s # d
  /\ bind' = [bind EXCEPT !.v3[d] = CloneTarget(V3Ids, bind.v3[s])]
  /\ vec3' = [vec3 EXCEPT ![bind'.v3[d]] =
                << vec3[bind.v3[s]][1], vec3[bind.v3[s]][2], vec3[bind.v3[s]][3] >>]
  /\ Record("V3.clone", s, d, vec3[bind.v3[s]], <<>>, "new")
  /\ UNCHANGED << matrixVars, quatVars, vec1, vec2, vec4, VtmpMatrix3, VtmpMatrix4 >>

\* mat4 name d = (mat4 name s).clone()
M4CloneCall(s, d) ==
  /\ MoreCalls
  /\ s # d
  /\ bind' = [bind EXCEPT !.m4[d] = CloneTarget(M4Ids, bind.m4[s])]
  /\ mat4' = [mat4 EXCEPT ![bind'.m4[d]] = [i \in 1..16 |-> mat4[bind.m4[s]][i]]]
  /\ Record("M4.clone", s, d, mat4[bind.m4[s]], <<>>, "new")
  /\ UNCHANGED << M4tmpMatrix, M4tmpVector, mat3, M3tmpMatrix, M3tmpVector,
                  quatVars, vectorVars >>

\* quat name d = (quat name s).clone()
QCloneCall(s, d) ==
  /\ MoreCalls
  /\ s # d
  /\ bind' = [bind EXCEPT !.q[d] = CloneTarget(QIds, bind.q[s])]
  /\ quat' = [quat EXCEPT ![bind'.q[d]] =
                << quat[bind.q[s]][1], quat[bind.q[s]][2],
                   quat[bind.q[s]][3], quat[bind.q[s]][4] >>]
  /\ Record("Q.clone", s, d, quat[bind.q[s]], <<>>, "new")
  /\ UNCHANGED << matrixVars, vectorVars, Qtemporary >>

InitClone ==
  /\ ScratchInit
  /\ \E M \in {Seq16, Dense4} :
        mat4 = [id \in M4Ids |-> IF id = "a" THEN M ELSE Identity4]
  /\ mat3 = [id \in M3Ids |-> Identity3]
  /\ \E p \in {UnitI, <<One, One, One, One>>} :
        quat = [i \in QIds |-> IF i = "p" THEN p ELSE QIdentity]
  /\ vec1 = <<Zero>>
  /\ vec2 = <<Zero, Zero>>
  /\ \E v \in Vec3NormInputs :
        vec3 = [i \in V3Ids |-> IF i = "v" THEN v ELSE <<One, Zero, Zero>>]
  /\ vec4 = <<Zero, Zero, Zero, Zero>>
  /\ calls = <<>>
  /\ budget = MaxOps

NextClone ==
  \/ \E s, d \in V3Ids : V3CloneCall(s, d)
  \/ \E s, d \in M4Ids : M4CloneCall(s, d)
  \/ \E s, d \in QIds : QCloneCall(s, d)
  \/ \E n \in V3Ids : V3NormalizeCall(bind.v3[n])
  \/ \E n, o \in M4Ids : M4MultiplyCall(bind.m4[n], bind.m4[o])
  \/ \E n \in M4Ids : M4InvertCall(bind.m4[n])
  \/ \E n, o \in QIds : QMultiplyCall(bind.q[n], bind.q[o])
  \/ \E n \in QIds : QInvertCall(bind.q[n])

SpecClone == InitClone /\ [][NextClone]_vars

-----------------------------------------------------------------------------
(* Claims checked under SpecClone *)

\* what the caller reads through a name
V3Named(n) == vec3[bind.v3[n]]
M4Named(n) == mat4[bind.m4[n]]
QNamed(n) == quat[bind.q[n]]

\* the step is a call of clone() of one of the three classes
CloneStep(op) == Len(calls') = Len(calls) + 1 /\ calls'[Len(calls')].op = op

\* C15: clone() returns a new object with the components of the receiver
\* (and the same isZero()), not the receiver and not sharing its storage: the
\* receiver keeps its components, and no later call changes the components
\* read through both names, the original's and the clone's.
C15_CloneSharesNoStorage ==
  [][ /\ \A s, d \in V3Ids :
           (CloneStep("V3.clone") /\ last'.recv = s /\ last'.argid = d) =>
             /\ V3Named(d)' = V3Named(s)
             /\ V3Named(s)' = V3Named(s)
             /\ V3IsZero(V3Named(d)') = V3IsZero(V3Named(s))
             /\ bind'.v3[d] # bind'.v3[s]
      /\ \A s, d \in M4Ids :
           (CloneStep("M4.clone") /\ last'.recv = s /\ last'.argid = d) =>
             /\ M4Named(d)' = M4Named(s)
             /\ M4Named(s)' = M4Named(s)
             /\ bind'.m4[d] # bind'.m4[s]
      /\ \A s, d \in QIds :
           (CloneStep("Q.clone") /\ last'.recv = s /\ last'.argid = d) =>
             /\ QNamed(d)' = QNamed(s)
             /\ QNamed(s)' = QNamed(s)
             /\ bind'.q[d] # bind'.q[s]
      /\ ~(V3Named("v")' # V3Named("v") /\ V3Named("o")' # V3Named("o"))
      /\ ~(M4Named("a")' # M4Named("a") /\ M4Named("b")' # M4Named("b"))
      /\ ~(QNamed("p")' # QNamed("p") /\ QNamed("q")' # QNamed("q"))
    ]_vars

\* a Vector3 was cloned and the clone was then changed by normalize(), the
\* original keeping the components it had when it was cloned
C15_Witness ==
  /\ Len(calls) = 2
  /\ calls[1].op = "V3.clone" /\ calls[1].recv = "v" /\ calls[1].argid = "o"
  /\ calls[2].op = "V3.normalize" /\ calls[2].recv = bind.v3["o"]
  /\ V3Named("o") # calls[2].pre
  /\ V3Named("v") = calls[1].pre
  /\ calls[2].pre = calls[1].pre

-----------------------------------------------------------------------------
(* SpecChain: the setters that overwrite a whole object, with what each    *)
(* returns.                                                                *)

\* vec4.set(x, y, z, w); the call returns nothing
V4SetCall(x, y, z, w) ==
  /\ MoreCalls
  /\ vec4' = <<x, y, z, w>>
  /\ Call("V4.set", "", "", vec4, <<x, y, z, w>>, "void")
  /\ UNCHANGED << matrixVars, quatVars, vec1, vec2, vec3, VtmpMatrix3, VtmpMatrix4 >>

\* vec4.copy(other); the call returns nothing
V4CopyCall(other) ==
  /\ MoreCalls
  /\ vec4' = <<other[1], other[2], other[3], other[4]>>
  /\ Call("V4.copy", "", "", vec4, other, "void")
  /\ UNCHANGED << matrixVars, quatVars, vec1, vec2, vec3, VtmpMatrix3, VtmpMatrix4 >>

\* vec3[v].copy(vec3[o])
V3CopyCall(v, o) ==
  /\ MoreCalls
  /\ vec3' = [vec3 EXCEPT ![v] = <<vec3[o][1], vec3[o][2], vec3[o][3]>>]
  /\ Call("V3.copy", v, o, vec3[v], vec3[o], "this")
  /\ UNCHANGED << matrixVars, quatVars, vec1, vec2, vec4, VtmpMatrix3, VtmpMatrix4 >>

\* mat4[t].copy(mat4[o]); the call returns nothing
M4CopyCall(t, o) ==
  /\ MoreCalls
  /\ mat4' = [mat4 EXCEPT ![t] = [i \in 1..16 |-> mat4[o][i]]]
  /\ Call("M4.copy", t, o, mat4[t], mat4[o], "void")
  /\ UNCHANGED << M4tmpMatrix, M4tmpVector, mat3, M3tmpMatrix, M3tmpVector,
                  quatVars, vectorVars >>

\* mat4[t].setIdentity()
M4SetIdentityCall(t) ==
  /\ MoreCalls
  /\ mat4' = [mat4 EXCEPT ![t] = Identity4]
  /\ Call("M4.setIdentity", t, "", mat4[t], <<>>, "this")
  /\ UNCHANGED << M4tmpMatrix, M4tmpVector, mat3, M3tmpMatrix, M3tmpVector,
                  quatVars, vectorVars >>

\* mat3[t].copy(mat3[o]); the call returns nothing
M3CopyCall(t, o) ==
  /\ MoreCalls
  /\ mat3' = [mat3 EXCEPT ![t] = [i \in 1..9 |-> mat3[o][i]]]
  /\ Call("M3.copy", t, o, mat3[t], mat3[o], "void")
  /\ UNCHANGED << mat4, M4tmpMatrix, M4tmpVector, M3tmpMatrix, M3tmpVector,
                  quatVars, vectorVars >>

\* quat[t].set(quat[o])
QSetCall(t, o) ==
  /\ MoreCalls
  /\ quat' = [quat EXCEPT ![t] = <<quat[o][1], quat[o][2], quat[o][3], quat[o][4]>>]
  /\ Call("Q.set", t, o, quat[t], quat[o], "this")
  /\ UNCHANGED << matrixVars, vectorVars, Qtemporary >>

\* quat[t].setIdentity(); the call returns nothing
QSetIdentityCall(t) ==
  /\ MoreCalls
  /\ quat' = [quat EXCEPT ![t] = QIdentity]
  /\ Call("Q.setIdentity", t, "", quat[t], <<>>, "void")
  /\ UNCHANGED << matrixVars, vectorVars, Qtemporary >>

InitChain ==
  /\ ScratchInit
  /\ \E M \in {Seq16, Dense4} :
        mat4 = [id \in M4Ids |-> IF id = "a" THEN M ELSE Identity4]
  /\ mat3 = [id \in M3Ids |-> IF id = "a" THEN Seq9 ELSE Identity3]
  /\ \E p \in {UnitI, <<One, One, One, One>>} :
        quat = [i \in QIds |-> IF i = "p" THEN p ELSE QIdentity]
  /\ vec1 = <<Zero>>
  /\ vec2 = <<Zero, Zero>>
  /\ \E v \in AxisInputs :
        vec3 = [i \in V3Ids |-> IF i = "v" THEN v ELSE <<One, Zero, Zero>>]
  /\ vec4 \in Vec4Inputs
  /\ calls = <<>>
  /\ budget = MaxOps

NextChain ==
  \/ \E v \in Vec4Inputs : V4SetCall(v[1], v[2], v[3], v[4])
  \/ \E v \in Vec4Inputs : V4CopyCall(v)
  \/ \E v, o \in V3Ids : V3CopyCall(v, o)
  \/ \E t, o \in M4Ids : M4CopyCall(t, o)
  \/ \E t \in M4Ids : M4SetIdentityCall(t)
  \/ \E t, o \in M3Ids : M3CopyCall(t, o)
  \/ \E t, o \in QIds : QSetCall(t, o)
  \/ \E t \in QIds : QSetIdentityCall(t)
  \/ \E t \in QIds, k \in AngleInputs : QSetAxisAndAngleCall(t, "v", k)

SpecChain == InitChain /\ [][NextChain]_vars

-----------------------------------------------------------------------------
(* Claims checked under SpecChain *)

\* C16: every mutating method (set, copy, setIdentity and setAxisAndAngle
\* among them) returns the receiver, so that another call can be chained.
C16_MutatingCallsReturnReceiver ==
  Len(calls) > 0 => last.ret = "this"

-----------------------------------------------------------------------------
(* SpecCross: cross products of three Vector3 objects, in place and into   *)
(* an output vector.                                                       *)

V3CrossIds == {"v", "o", "out"}

\* vec3[v].cross(vec3[o])
V3CrossCall(v, o) ==
  /\ MoreCalls
  /\ AllInRange(vec3[v])
  /\ AllInRange(vec3[o])
  /\ vec3' = [vec3 EXCEPT ![v] = V3Cross(vec3[v], vec3[o])]
  /\ Call("V3.cross", v, o, vec3[v], vec3[o], "this")
  /\ UNCHANGED << matrixVars, quatVars, vec1, vec2, vec4, VtmpMatrix3, VtmpMatrix4 >>

\* vec3[v].crossTo(vec3[o], vec3[out]): out.copy(this), then out.cross(other)
\* with other read after the copy; the call returns out
V3CrossToCall(v, o, out) ==
  /\ MoreCalls
  /\ AllInRange(vec3[v])
  /\ AllInRange(vec3[o])
  /\ LET copied == [vec3 EXCEPT ![out] = <<vec3[v][1], vec3[v][2], vec3[v][3]>>]
     IN vec3' = [copied EXCEPT ![out] = V3Cross(copied[out], copied[o])]
  /\ Call("V3.crossTo", v, o, vec3[v], vec3[o], out)
  /\ UNCHANGED << matrixVars, quatVars, vec1, vec2, vec4, VtmpMatrix3, VtmpMatrix4 >>

InitCross ==
  /\ ScratchInit
  /\ mat4 = [id \in M4Ids |-> Identity4]
  /\ mat3 = [id \in M3Ids |-> Identity3]
  /\ quat = [i \in QIds |-> QIdentity]
  /\ vec1 = <<Zero>>
  /\ vec2 = <<Zero, Zero>>
  /\ \E v \in {<<R(1), R(2), R(3)>>, <<One, Zero, Zero>>},
        o \in {<<R(4), R(5), R(6)>>, <<Zero, One, Zero>>} :
        vec3 = [i \in V3CrossIds |->
                  IF i = "v" THEN v ELSE IF i = "o" THEN o ELSE <<Zero, Zero, Zero>>]
  /\ vec4 = <<Zero, Zero, Zero, Zero>>
  /\ calls = <<>>
  /\ budget = MaxOps

NextCross ==
  \/ \E o \in V3CrossIds : V3CrossCall("v", o)
  \/ \E o, out \in V3CrossIds : V3CrossToCall("v", o, out)

SpecCross == InitCross /\ [][NextCross]_vars

-----------------------------------------------------------------------------
(* Claims checked under SpecCross *)

\* the cross product a x b
CrossProduct(a, b) ==
  << Sub(Mul(a[2], b[3]), Mul(a[3], b[2])),
     Sub(Mul(a[3], b[1]), Mul(a[1], b[3])),
     Sub(Mul(a[1], b[2]), Mul(a[2], b[1])) >>

\* C17: v.crossTo(other, out), out another object than v, leaves in out the
\* cross product of the pre-call v and other and leaves v as it was, also
\* when out is the same object as other.
C17_CrossToWritesCrossProductToOut ==
  (LastIs("V3.crossTo") /\ last.ret # last.recv) =>
     /\ vec3[last.ret] = CrossProduct(last.pre, last.arg)
     /\ vec3[last.recv] = last.pre

-----------------------------------------------------------------------------
(* SpecCamera: view and projection matrices.                               *)

CameraIds == {"position", "target", "up"}

\* mat4[t].lookAt(vec3[position], vec3[target], vec3[up])
M4LookAtCall(t, position, target, up) ==
  /\ MoreCalls
  /\ mat4' = [mat4 EXCEPT ![t] =
                M4LookAt(mat4[t], vec3[position], vec3[target], vec3[up])]
  /\ Call("M4.lookAt", t, <<position, target, up>>, mat4[t],
          <<vec3[position], vec3[target], vec3[up]>>, "this")
  /\ UNCHANGED << M4tmpMatrix, M4tmpVector, mat3, M3tmpMatrix, M3tmpVector,
                  quatVars, vectorVars >>

\* mat4[t].perspective(k * (PI / 2), near, far, aspect, {depthZeroToOne})
M4PerspectiveCall(t, k, near, far, aspect, depthZeroToOne) ==
  /\ MoreCalls
  /\ mat4' = [mat4 EXCEPT ![t] = M4Perspective(k, near, far, aspect, depthZeroToOne)]
  /\ Call("M4.perspective", t, "", mat4[t],
          [near |-> near, far |-> far, depthZeroToOne |-> depthZeroToOne], "this")
  /\ UNCHANGED << M4tmpMatrix, M4tmpVector, mat3, M3tmpMatrix, M3tmpVector,
                  quatVars, vectorVars >>

\* camera positions at distance 0, 2, 5 and 5 of the origin
PositionInputs ==
  { <<Zero, Zero, Zero>>, <<Zero, R(-2), Zero>>, <<Zero, Zero, R(5)>>,
    <<R(3), R(4), Zero>> }

UpInputs == { <<Zero, Zero, One>>, <<Zero, One, Zero>> }

FovInputs == {1, 3}
NearInputs == { One, Frac(1, 2) }
FarInputs == { R(4), PosInf }
AspectInputs == { R(2) }

InitCamera ==
  /\ ScratchInit
  /\ \E M \in {Zero4, Seq16} :
        mat4 = [id \in M4Ids |-> IF id = "a" THEN M ELSE Identity4]
  /\ mat3 = [id \in M3Ids |-> Identity3]
  /\ quat = [i \in QIds |-> QIdentity]
  /\ vec1 = <<Zero>>
  /\ vec2 = <<Zero, Zero>>
  /\ \E p \in PositionInputs, u \in UpInputs : \E t \in {<<Zero, Zero, Zero>>, p} :
        vec3 = [i \in CameraIds |->
                  IF i = "position" THEN p ELSE IF i = "target" THEN t ELSE u]
  /\ vec4 = <<Zero, Zero, Zero, Zero>>
  /\ calls = <<>>
  /\ budget = MaxOps

NextCamera ==
  \/ \E target \in {"target", "position"} : M4LookAtCall("a", "position", target, "up")
  \/ \E k \in FovInputs, near \in NearInputs, far \in FarInputs,
        aspect \in AspectInputs, depthZeroToOne \in BOOLEAN :
        M4PerspectiveCall("a", k, near, far, aspect, depthZeroToOne)

SpecCamera == InitCamera /\ [][NextCamera]_vars

-----------------------------------------------------------------------------
(* Claims checked under SpecCamera *)

\* |position - target|^2
SquaredDistance(p, t) ==
  Add(Add(Sq(Sub(p[1], t[1])), Sq(Sub(p[2], t[2]))), Sq(Sub(p[3], t[3])))

\* C19: lookAt(position, target, up) with |position - target| < EPSILON
\* leaves the 16 elements of the receiver as they were and returns the
\* receiver; position, target and up keep their components in every call.
C19_LookAtFromTargetIsNoOp ==
  LastIs("M4.lookAt") =>
     /\ \A i \in 1..3 : vec3[last.argid[i]] = last.arg[i]
     /\ last.ret = "this"
     /\ BelowEpsilon(MathSqrt(SquaredDistance(last.arg[1], last.arg[2]))) =>
          mat4[last.recv] = last.pre

\* lookAt was called with target equal to position (as another object) on a
\* matrix that a call with the same position and up and a distant target
\* would have changed
C19_Witness ==
  /\ LastIs("M4.lookAt")
  /\ last.argid[1] # last.argid[2]
  /\ last.arg[1] = last.arg[2]
  /\ mat4[last.recv] = last.pre
  /\ M4LookAtElements(last.arg[1],
                      <<last.arg[1][1], Add(last.arg[1][2], R(2)), last.arg[1][3]>>,
                      last.arg[3]) # last.pre

\* clip z / clip w of the view-space point (0, 0, z, 1) under the matrix M
NormalizedDepth(M, z) ==
  Div(Add(Mul(E(M, 10), z), E(M, 14)), Add(Mul(E(M, 11), z), E(M, 15)))

\* C20: the matrix set by perspective maps z = -near to normalized depth -1,
\* or 0 with depthZeroToOne, for finite far and for far = Infinity (then no
\* element is NaN), and for finite far > near > 0 maps z = -far to depth 1.
C20_PerspectiveDepthRange ==
  LastIs("M4.perspective") =>
     /\ NormalizedDepth(mat4[last.recv], Neg(last.arg.near))
          = IF last.arg.depthZeroToOne THEN Zero ELSE R(-1)
     /\ last.arg.far = PosInf => NoNaN(mat4[last.recv])
     /\ last.arg.far # PosInf =>
          NormalizedDepth(mat4[last.recv], Neg(last.arg.far)) = One

\* perspective was called with far = Infinity and depthZeroToOne, after a
\* call with a finite far and the default depth range
C20_Witness ==
  /\ Len(calls) = 2
  /\ calls[1].op = "M4.perspective"
  /\ calls[1].arg.far # PosInf /\ ~calls[1].arg.depthZeroToOne
  /\ calls[2].op = "M4.perspective"
  /\ calls[2].arg.far = PosInf /\ calls[2].arg.depthZeroToOne
  /\ NormalizedDepth(mat4["a"], Neg(calls[2].arg.near)) = Zero

(***************************************************************************)
(* functions.ts: range().  A generator function: the call creates an       *)
(* iterator and runs nothing; each next() runs the body up to the next     *)
(* yield or to the end.  The locals start, step and i belong to the        *)
(* iterator.  A Number has a mantissa of 53 bits; the model keeps the      *)
(* rounding of i += step and narrows the mantissa to MantissaBits.         *)
(***************************************************************************)
\* width of the mantissa of a Number in the model
MantissaBits == 4
\* the consumer keeps the first MaxYields values of an iterator in out
MaxYields == 6

RECURSIVE Pow2(_)
Pow2(n) == IF n = 0 THEN 1 ELSE 2 * Pow2(n - 1)

\* the distance between neighbouring Numbers around the magnitude a
RECURSIVE Quantum(_)
Quantum(a) == IF a < Pow2(MantissaBits) THEN 1 ELSE 2 * Quantum(a \div 2)

\* round to the nearest Number, a tie to the one with the even mantissa
FloatRound(n) ==
  LET a == Abs(n)
      q == Quantum(a)
      lo == (a \div q) * q
      r == a - lo
      m == IF 2 * r < q THEN lo
           ELSE IF 2 * r > q THEN lo + q
           ELSE IF (lo \div q) % 2 = 0 THEN lo ELSE lo + q
  IN IF n < 0 THEN 0 - m ELSE m

\* i += step
FloatAdd(i, step) == FloatRound(i + step)

\* the three early returns
RangeReturnsEarly(stop, start, step) ==
  \/ step = 0
  \/ step > 0 /\ start > stop
  \/ step < 0 /\ start < stop

\* mutant of RangeContinues: stop is an inclusive bound
RangeContinuesInclusive(i, stop, step) == IF step > 0 THEN i <= stop ELSE i >= stop

\* the loop condition: step > 0 ? i < stop : i > stop
RangeContinues(i, stop, step) == IF step > 0 THEN i < stop ELSE i > stop

\* the body has reached the loop condition with the local i
RangeTest(g, i) ==
  IF RangeContinues(i, gen[g].stop, gen[g].step)
  THEN gen' = [gen EXCEPT ![g].pc = "loop", ![g].i = i,
                          ![g].asked = 1 - gen[g].asked,
                          ![g].out = IF Len(gen[g].out) < MaxYields
                                     THEN Append(gen[g].out, i) ELSE gen[g].out]
  ELSE gen' = [gen EXCEPT ![g].pc = "done", ![g].i = i,
                          ![g].asked = 1 - gen[g].asked,
                          ![g].completed = gen[g].completed \cup {gen[g].out}]

rangeFrame == << mat4, M4tmpMatrix, M4tmpVector, mat3, M3tmpMatrix, M3tmpVector,
                 quat, Qtemporary, vec1, vec2, vec3, vec4, VtmpMatrix3,
                 VtmpMatrix4, bind, polar, thread, calls >>

\* g = range(stop, {start, step}): a fresh iterator, suspended at the start
RangeCall(g) ==
  /\ MoreCalls
  /\ budget' = budget - 1
  /\ gen' = [gen EXCEPT ![g].pc = "start", ![g].i = 0, ![g].out = <<>>,
                          ![g].asked = 0]
  /\ UNCHANGED rangeFrame

\* g.next(): runs the body from where it is suspended to the next yield or
\* to the end; asked is the parity of the number of next() calls served
RangeNext(g) ==
  /\ gen[g].pc \in {"start", "loop"}
  /\ IF gen[g].pc = "start"
     THEN IF RangeReturnsEarly(gen[g].stop, gen[g].start, gen[g].step)
          THEN gen' = [gen EXCEPT ![g].pc = "done", ![g].asked = 1 - gen[g].asked,
                         ![g].completed = gen[g].completed \cup {gen[g].out}]
          ELSE RangeTest(g, gen[g].start)
     ELSE RangeTest(g, FloatAdd(gen[g].i, gen[g].step))
  /\ UNCHANGED << rangeFrame, budget >>

\* the arguments of the tests and of the documented examples
RangeStops == {8, 0}
RangeStarts == {0, 2, 7, 10}
RangeSteps == {-3, -1, 0, 1, 3}

\* the number of members of start, start + step, ... strictly before stop
ProgressionLength(stop, start, step) ==
  IF step = 0 THEN 0
  ELSE IF step > 0
       THEN IF start >= stop THEN 0 ELSE (stop - start + step - 1) \div step
       ELSE IF start <= stop THEN 0 ELSE (start - stop - step - 1) \div (0 - step)

RangeArgs(stops, starts, steps) ==
  { a \in [stop : stops, start : starts, step : steps] :
      ProgressionLength(a.stop, a.start, a.step) < MaxYields }

InitRangeWith(args) ==
  /\ ScratchObjects
  /\ RestInit
  /\ bind = DistinctObjects
  /\ mat4 = [id \in M4Ids |-> Identity4]
  /\ mat3 = [id \in M3Ids |-> Identity3]
  /\ polar = [phi |-> 0, theta |-> 0, radius |-> One]
  /\ thread = NoThreads
  /\ budget = MaxOps + 1
  /\ \E a \in [GenIds -> args] :
       gen = [g \in GenIds |->
               [stop |-> a[g].stop, start |-> a[g].start, step |-> a[g].step,
                pc |-> "none", i |-> 0, asked |-> 0, out |-> <<>>,
                completed |-> {}]]

InitRange == InitRangeWith(RangeArgs(RangeStops, RangeStarts, RangeSteps))

NextRange ==
  \/ \E g \in GenIds : RangeCall(g)
  \/ \E g \in GenIds : RangeNext(g)

SpecRange == InitRange /\ [][NextRange]_vars

\* start, start + step, start + 2*step, ... strictly before stop
Progression(stop, start, step) ==
  [k \in 1..ProgressionLength(stop, start, step) |-> start + (k - 1) * step]

IsPrefix(s, t) == Len(s) <= Len(t) /\ \A k \in 1..Len(s) : s[k] = t[k]

FirstSparse == Pow2(MantissaBits)

FairStops == {8, FirstSparse + 4}
FairStarts == {2, 10, FirstSparse}
FairSteps == {-1, 0, 1, 3}

InitRangeFair ==
  InitRangeWith([stop : FairStops, start : FairStarts, step : FairSteps])

SpecRangeFair ==
  /\ InitRangeFair
  /\ [][NextRange]_vars
  /\ \A g \in GenIds : WF_vars(RangeNext(g))

\* C22: for all finite stop, start and step an iterator of range() is done
\* after finitely many yields (every iterator that exists is eventually done
\* when it is asked again and again), and all completed invocations with the
\* same arguments have produced the same sequence, whatever the other
\* iterator was doing.
C22_RangeTerminatesAndRepeats ==
  /\ \A g \in GenIds : (gen[g].pc \in {"start", "loop"}) ~> (gen[g].pc = "done")
  /\ [](\A g \in GenIds : Cardinality(gen[g].completed) <= 1)

(***************************************************************************)
(* PolarCoordinate3: the fields _phi, _theta, _radius.  Angles are         *)
(* multiples of PI / 4: the field value k stands for k * (PI / 4), where   *)
(* Math.cos and Math.sin are 0, 1, -1 or (+/-) sqrt(2) / 2 (taken exactly; *)
(* the source's Math.sin(Math.PI) is 1.2e-16).                             *)
(***************************************************************************)
\* Math.cos(a) and Math.sin(a) for a = k * (PI / 4)
MathCos(k) == MathCosHalf(k)
MathSin(k) == MathSinHalf(k)

\* the position the documentation of the fields describes: phi the polar
\* angle measured from the positive z-axis, theta the azimuth measured from
\* the positive x-axis
PolarToVector3PhiFromZ(this) ==
  << Mul(Mul(this.radius, MathSin(this.phi)), MathCos(this.theta)),
     Mul(Mul(this.radius, MathSin(this.phi)), MathSin(this.theta)),
     Mul(this.radius, MathCos(this.phi)) >>

\* toVector3: the x, y, z handed to out.set
PolarToVector3(this) ==
  LET sinTheta == MathSin(this.theta)
  IN << Mul(Mul(this.radius, sinTheta), MathCos(this.phi)),
        Mul(Mul(this.radius, sinTheta), MathSin(this.phi)),
        Mul(this.radius, MathCos(this.theta)) >>

\* mutant of PolarToTangentZ: the signs of the three components reversed
PolarToTangentZReversed(this) ==
  LET cosTheta == MathCos(this.theta)
  IN << Mul(cosTheta, MathCos(this.phi)),
        Mul(cosTheta, MathSin(this.phi)),
        Neg(MathSin(this.theta)) >>

\* toTangentZ: the x, y, z handed to out.set
PolarToTangentZ(this) ==
  LET cosTheta == MathCos(this.theta)
  IN << Mul(Neg(cosTheta), MathCos(this.phi)),
        Mul(Neg(cosTheta), MathSin(this.phi)),
        MathSin(this.theta) >>

polarFrame == << mat4, M4tmpMatrix, M4tmpVector, mat3, M3tmpMatrix, M3tmpVector,
                 quat, Qtemporary, vec1, vec2, vec4, VtmpMatrix3, VtmpMatrix4,
                 bind, gen, thread >>

\* p.phi = k * (PI / 4)
PolarSetPhiCall(k) ==
  /\ MoreCalls
  /\ polar' = [polar EXCEPT !.phi = k]
  /\ Log("P.phi=", "p", "", polar, k, "void")
  /\ UNCHANGED << polarFrame, vec3 >>

\* p.theta = k * (PI / 4)
PolarSetThetaCall(k) ==
  /\ MoreCalls
  /\ polar' = [polar EXCEPT !.theta = k]
  /\ Log("P.theta=", "p", "", polar, k, "void")
  /\ UNCHANGED << polarFrame, vec3 >>

\* p.radius = r
PolarSetRadiusCall(r) ==
  /\ MoreCalls
  /\ polar' = [polar EXCEPT !.radius = r]
  /\ Log("P.radius=", "p", "", polar, r, "void")
  /\ UNCHANGED << polarFrame, vec3 >>

\* p.toVector3(out)
PolarToVector3Call(out) ==
  /\ MoreCalls
  /\ vec3' = [vec3 EXCEPT ![out] = PolarToVector3(polar)]
  /\ Log("P.toVector3", "p", out, polar, vec3[out], "void")
  /\ UNCHANGED << polarFrame, polar >>

\* p.toTangentZ(out)
PolarToTangentZCall(out) ==
  /\ MoreCalls
  /\ vec3' = [vec3 EXCEPT ![out] = PolarToTangentZ(polar)]
  /\ Log("P.toTangentZ", "p", out, polar, vec3[out], "void")
  /\ UNCHANGED << polarFrame, polar >>

\* angles k * (PI / 4), among them the PI / 4, PI / 2 and PI of the tests
PolarAngles == 0..7
PolarRadii == {One, R(2)}

InitPolar ==
  /\ ScratchObjects
  /\ RestInit
  /\ bind = DistinctObjects
  /\ gen = NoGenerators
  /\ thread = NoThreads
  /\ mat4 = [id \in M4Ids |-> Identity4]
  /\ mat3 = [id \in M3Ids |-> Identity3]
  /\ budget = MaxOps
  /\ \E phi \in PolarAngles, theta \in PolarAngles, radius \in PolarRadii :
       polar = [phi |-> phi, theta |-> theta, radius |-> radius]

NextPolar ==
  \/ \E k \in PolarAngles : PolarSetPhiCall(k)
  \/ \E k \in PolarAngles : PolarSetThetaCall(k)
  \/ \E r \in PolarRadii : PolarSetRadiusCall(r)
  \/ PolarToVector3Call("v")
  \/ PolarToTangentZCall("v")

SpecPolar == InitPolar /\ [][NextPolar]_vars

\* C23: toVector3 of a PolarCoordinate3 with phi = PI / 2, theta = PI and
\* radius = 1 writes the position (-1, 0, 0) into out.
C23_HalfPiPiOneIsMinusX ==
  LastIs("P.toVector3") /\ last.pre = [phi |-> 2, theta |-> 4, radius |-> One]
    => vec3[last.argid] = <<R(-1), Zero, Zero>>

\* the derivative with respect to theta of the unit-radius position
\* (sin(theta)cos(phi), sin(theta)sin(phi), cos(theta))
PositionDerivativeTheta(phi, theta) ==
  << Mul(MathCos(theta), MathCos(phi)),
     Mul(MathCos(theta), MathSin(phi)),
     Neg(MathSin(theta)) >>

SquaredLength3(v) == Add(Add(Sq(v[1]), Sq(v[2])), Sq(v[3]))

\* C24 as stated: toTangentZ writes into out the unit tangent in the
\* direction of increasing theta, (cos(theta)cos(phi), cos(theta)sin(phi),
\* -sin(theta)), and does not modify the receiver's phi, theta and radius.
C24_TangentOfIncreasingTheta ==
  LastIs("P.toTangentZ") =>
    /\ vec3[last.argid] = PositionDerivativeTheta(last.pre.phi, last.pre.theta)
    /\ polar = last.pre

\* C24 amended: toTangentZ writes into out the unit tangent in the direction
\* of decreasing theta (towards the positive z-axis), the negated derivative
\* (-cos(theta)cos(phi), -cos(theta)sin(phi), sin(theta)), and does not
\* modify the receiver's phi, theta and radius.
C24_TangentOfDecreasingTheta ==
  LastIs("P.toTangentZ") =>
    LET d == PositionDerivativeTheta(last.pre.phi, last.pre.theta)
    IN /\ vec3[last.argid] = << Neg(d[1]), Neg(d[2]), Neg(d[3]) >>
       /\ SquaredLength3(vec3[last.argid]) = One
       /\ polar = last.pre

\* toTangentZ at phi = PI / 4, theta = PI / 4 (the second case of the test),
\* after the fields were assigned
C24_Witness ==
  /\ LastIs("P.toTangentZ")
  /\ last.pre.phi = 1 /\ last.pre.theta = 1
  /\ Len(calls) > 1
  /\ vec3["v"] = << Frac(-1, 2), Frac(-1, 2), HalfSqrt2 >>

(***************************************************************************)
(* Matrix4: the calls that go through the shared scratch matrix            *)
(* Matrix4.tmpMatrix (multiplyScale, multiplyTranslation,                  *)
(* multiplyRotation, divide), on two instances, each call run to           *)
(* completion before the next one starts.                                  *)
(***************************************************************************)
InitScratch ==
  /\ ScratchInit
  /\ RestInit
  /\ mat3 = [id \in M3Ids |-> Identity3]
  /\ budget = MaxOps
  /\ \E a \in {Identity4, Dense4}, b \in {Zero4, Dense4} :
       mat4 = [id \in M4Ids |-> IF id = "a" THEN a ELSE b]

NextScratch ==
  \/ \E t \in M4Ids, s \in ScaleArgs : M4MultiplyScaleCall(t, s)
  \/ \E t \in M4Ids, p \in Vec3Args : M4MultiplyTranslationCall(t, p)
  \/ \E t \in M4Ids, q \in RotationArgs : M4MultiplyRotationCall(t, q)
  \/ \E t, o \in M4Ids : M4DivideCall(t, o)

SpecScratch == InitScratch /\ [][NextScratch]_vars

\* C25: whatever Matrix4 calls came before, the result of m.multiplyScale(s),
\* m.multiplyTranslation(t), m.multiplyRotation(q) and m.divide(o) depends
\* only on m and the argument: m times the scale, translation or rotation
\* matrix of the argument, m times the inverse of o, or m itself when o is
\* singular; m.multiplyTranslation(t) equals m.multiply(T), T the identity
\* with t in elements 12 to 14.
C25_ScratchIsNeverObservable ==
  /\ LastIs("M4.multiplyTranslation") =>
       mat4[last.recv] = M4Multiply(last.pre, TranslationMatrix(last.arg))
  /\ LastIs("M4.multiplyScale") =>
       mat4[last.recv] = M4Multiply(last.pre, M4SetScale(last.arg))
  /\ LastIs("M4.multiplyRotation") =>
       mat4[last.recv] = M4Multiply(last.pre, M4SetRotation(last.arg))
  /\ LastIs("M4.divide") =>
       mat4[last.recv] = IF last.ret = "null" THEN last.pre
                         ELSE M4Multiply(last.pre, M4Inverse(last.arg))

Dot3(u, v) == Add(Add(Mul(u[1], v[1]), Mul(u[2], v[2])), Mul(u[3], v[3]))

\* the camera basis vectors a, b, c stored in the upper-left 3x3 block
BasisA(M) == << E(M, 0), E(M, 4), E(M, 8) >>
BasisB(M) == << E(M, 1), E(M, 5), E(M, 9) >>
BasisC(M) == << E(M, 2), E(M, 6), E(M, 10) >>

IsViewMatrix(M, position) ==
  /\ Dot3(BasisA(M), BasisA(M)) = One
  /\ Dot3(BasisB(M), BasisB(M)) = One
  /\ Dot3(BasisC(M), BasisC(M)) = One
  /\ Dot3(BasisA(M), BasisB(M)) = Zero
  /\ Dot3(BasisB(M), BasisC(M)) = Zero
  /\ Dot3(BasisC(M), BasisA(M)) = Zero
  /\ CrossProduct(BasisA(M), BasisB(M)) = BasisC(M)
  /\ M4Determinant(M) # Zero
  /\ M4ApplyVector(M, position[1], position[2], position[3], One)
       = <<Zero, Zero, Zero, One>>

\* C26: whenever position and target are at least EPSILON apart, lookAt
\* leaves in the receiver a right-handed view matrix: the basis vectors in
\* its upper-left 3x3 block are mutually orthogonal unit vectors (so it is
\* invertible) and it maps the point position to the origin; for every
\* non-zero up, including up parallel to position - target.
C26_LookAtGivesOrthonormalView ==
  /\ LastIs("M4.lookAt")
  /\ ~BelowEpsilon(MathSqrt(SquaredDistance(last.arg[1], last.arg[2])))
  /\ last.arg[3] # <<Zero, Zero, Zero>>
  => IsViewMatrix(mat4[last.recv], last.arg[1])

(***************************************************************************)
(* Matrix4.divide step by step.  Two logical threads of control, each      *)
(* with a receiver of its own (thread t divides mat4[t]), run the three    *)
(* statements of divide one at a time; Matrix4.tmpMatrix is shared.        *)
(***************************************************************************)
\* mutant of DivideCopied: the scratch matrix is not reloaded
DivideCopiedStale(tmpMatrix, other) == tmpMatrix

\* tmpMatrix.copy(other): the elements of the scratch matrix afterwards
DivideCopied(tmpMatrix, other) == other

divideFrame == << M4tmpVector, mat3, M3tmpMatrix, M3tmpVector, quat, Qtemporary,
                  vec1, vec2, vec3, vec4, VtmpMatrix3, VtmpMatrix4, bind, gen,
                  polar, calls >>

\* a step of thread t falls between the steps of every call in progress
\* in another thread
Interleaved(t) ==
  [u \in ThreadIds |->
     IF u # t /\ thread[u].pc \in {"copied", "inverted"}
     THEN [thread[u] EXCEPT !.alone = FALSE] ELSE thread[u]]

\* mat4[t].divide(other) is called: tmpMatrix.copy(other)
DivideCopy(t, other) ==
  /\ MoreCalls
  /\ thread[t].pc \in {"idle", "done"}
  /\ budget' = budget - 1
  /\ M4tmpMatrix' = DivideCopied(M4tmpMatrix, other)
  /\ thread' = [Interleaved(t) EXCEPT ![t] =
                  [pc |-> "copied", other |-> other, pre |-> mat4[t],
                   alone |-> TRUE, ret |-> "none"]]
  /\ UNCHANGED << mat4, divideFrame >>

\* if (!tmpMatrix.invert()) return null
DivideInvert(t) ==
  /\ thread[t].pc = "copied"
  /\ IF M4InvertFails(M4tmpMatrix)
     THEN /\ M4tmpMatrix' = M4tmpMatrix
          /\ thread' = [Interleaved(t) EXCEPT ![t].pc = "done", ![t].ret = "null"]
     ELSE /\ M4tmpMatrix' = M4Inverse(M4tmpMatrix)
          /\ thread' = [Interleaved(t) EXCEPT ![t].pc = "inverted"]
  /\ UNCHANGED << mat4, divideFrame, budget >>

\* return this.multiply(tmpMatrix)
DivideMultiply(t) ==
  /\ thread[t].pc = "inverted"
  /\ mat4' = [mat4 EXCEPT ![t] = M4Multiply(mat4[t], M4tmpMatrix)]
  /\ thread' = [Interleaved(t) EXCEPT ![t].pc = "done", ![t].ret = "this"]
  /\ UNCHANGED << M4tmpMatrix, divideFrame, budget >>

\* diag(2, 2, 2, 1) and diag(1, 1, 1, 2)
Scale2 == M4SetScale(<<R(2), R(2), R(2)>>)
Shrink2 == [i \in 1..16 |-> IF i = 16 THEN R(2) ELSE Identity4[i]]

DivideOperands == {Scale2, Shrink2, Zero4}

InitInterleave ==
  /\ ScratchInit
  /\ RestInit
  /\ mat3 = [id \in M3Ids |-> Identity3]
  /\ budget = MaxOps
  /\ \E a, b \in {Identity4, Dense4} :
       mat4 = [id \in M4Ids |-> IF id = "a" THEN a ELSE b]

NextInterleave ==
  \/ \E t \in ThreadIds, other \in DivideOperands : DivideCopy(t, other)
  \/ \E t \in ThreadIds : DivideInvert(t)
  \/ \E t \in ThreadIds : DivideMultiply(t)

SpecInterleave == InitInterleave /\ [][NextInterleave]_vars

\* what a.divide(other) leaves in a receiver that held pre
Quotient(pre, other) ==
  IF M4InvertFails(other) THEN pre ELSE M4Multiply(pre, M4Inverse(other))

\* C27: a divide call whose three steps ran with no step of another call in
\* between used the inverse of its own operand: it returned null and left
\* the receiver alone when the operand is singular, and otherwise left the
\* receiver multiplied by the inverse of its operand.  (That an interleaving
\* makes a call use the inverse of the other call's operand is the
\* reachability of C27_Witness.)
C27_UninterleavedDivideUsesOwnOperand ==
  \A t \in ThreadIds :
    thread[t].pc = "done" /\ thread[t].alone =>
      /\ mat4[t] = Quotient(thread[t].pre, thread[t].other)
      /\ thread[t].ret = IF M4InvertFails(thread[t].other) THEN "null" ELSE "this"

\* both calls are complete, the steps of a.divide(Scale2) were interleaved
\* with those of b.divide(Shrink2), and a was multiplied by the inverse of
\* Shrink2, the operand of the other call
C27_Witness ==
  /\ thread["a"].pc = "done" /\ thread["b"].pc = "done"
  /\ ~thread["a"].alone
  /\ thread["a"].other = Scale2 /\ thread["b"].other = Shrink2
  /\ thread["a"].ret = "this"
  /\ mat4["a"] = M4Multiply(thread["a"].pre, M4Inverse(Shrink2))
  /\ mat4["a"] # Quotient(thread["a"].pre, Scale2)

\* C28: Quaternion.fromAxisAndAngle(axis, angle) and q.setAxisAndAngle(axis,
\* angle) leave the caller's axis vector with the components it had before
\* the call, for every axis including the non-unit ones (under SpecQ).
C28_AxisArgumentIsUnchanged ==
  LastIs("Q.setAxisAndAngle") \/ LastIs("Q.fromAxisAndAngle") =>
    vec3[last.argid] = last.arg

(***************************************************************************)
(* multiply with the receiver as its own argument, and with another        *)
(* instance, for Matrix4, Matrix3 and Quaternion.                          *)
(***************************************************************************)
InitAlias ==
  /\ ScratchInit
  /\ vec1 = <<Zero>>
  /\ vec2 = <<Zero, Zero>>
  /\ vec3 = [i \in V3Ids |-> <<Zero, Zero, Zero>>]
  /\ vec4 = <<Zero, Zero, Zero, Zero>>
  /\ calls = <<>>
  /\ budget = MaxOps
  /\ \E a \in {Seq16, Dense4}, b \in {Identity4, Dense4} :
       mat4 = [id \in M4Ids |-> IF id = "a" THEN a ELSE b]
  /\ \E a \in {Seq9, Dense3} :
       mat3 = [id \in M3Ids |-> IF id = "a" THEN a ELSE Dense3]
  /\ \E p \in {UnitI, <<R(1), R(2), R(3), R(4)>>} :
       quat = [i \in QIds |-> IF i = "p" THEN p ELSE <<One, One, One, One>>]

NextAlias ==
  \/ \E t, o \in M4Ids : M4MultiplyCall(t, o)
  \/ \E t, o \in M3Ids : M3MultiplyCall(t, o)
  \/ \E t, o \in QIds : QMultiplyCall(t, o)

SpecAlias == InitAlias /\ [][NextAlias]_vars

\* C29: m.multiply(m) for Matrix4 and Matrix3 and q.multiply(q) for
\* Quaternion leave in the receiver exactly the product of its pre-call
\* value with an independent copy of that value.
C29_SelfMultiplyIsProductWithClone ==
  Len(calls) > 0 /\ last.recv = last.argid =>
    /\ last.op = "M4.multiply" => mat4[last.recv] = M4Multiply(last.pre, last.pre)
    /\ last.op = "M3.multiply" => mat3[last.recv] = M3Multiply(last.pre, last.pre)
    /\ last.op = "Q.multiply" => quat[last.recv] = QMultiply(last.pre, last.pre)

\* Dense4 was multiplied by itself, and the product is neither Dense4 nor
\* what storing each element before reading the next would give
C29_Witness ==
  /\ LastIs("M4.multiply")
  /\ last.recv = "a" /\ last.argid = "a"
  /\ last.pre = Dense4
  /\ mat4["a"] = M4Multiply(Dense4, Dense4)
  /\ mat4["a"] # Dense4
  /\ mat4["a"] # M4MultiplyStoredEarly([x \in {"a"} |-> Dense4], "a", "a")["a"]

(***************************************************************************)
(* Calls that take a matrix or a quaternion as argument: divide of         *)
(* Matrix4, Matrix3 and Quaternion, and applyMatrix3, applyMatrix4 and     *)
(* applyQuaternion of the vectors.  The argument objects are the caller's  *)
(* "b" matrices and "q" quaternion, invertible or singular.                *)
(***************************************************************************)
\* vec3[v].applyMatrix3(mat3[m])
V3ApplyMatrix3Call(v, m) ==
  /\ MoreCalls
  /\ VtmpMatrix3' = [VtmpMatrix3 EXCEPT ![3] = mat3[m]]
  /\ M3tmpVector' = M3ApplyVector(mat3[m], vec3[v][1], vec3[v][2], vec3[v][3])
  /\ vec3' = [vec3 EXCEPT ![v] = V3ApplyMatrix3(vec3[v], mat3[m])]
  /\ Call("V3.applyMatrix3", v, m, vec3[v], mat3[m], "this")
  /\ UNCHANGED << mat4, M4tmpMatrix, M4tmpVector, mat3, M3tmpMatrix,
                  quatVars, vec1, vec2, vec4, VtmpMatrix4 >>

InitFrame ==
  /\ ScratchInit
  /\ vec1 = <<Zero>>
  /\ vec2 = <<Zero, Zero>>
  /\ vec3 = [i \in V3Ids |-> <<R(1), R(2), R(3)>>]
  /\ vec4 = <<R(1), R(2), R(3), One>>
  /\ calls = <<>>
  /\ budget = MaxOps
  /\ \E invertible \in BOOLEAN :
       /\ mat4 = [id \in M4Ids |-> IF id = "a" THEN Dense4
                                  ELSE IF invertible THEN Scale2 ELSE Zero4]
       /\ mat3 = [id \in M3Ids |-> IF id = "a" THEN Dense3
                                  ELSE IF invertible THEN Seq9 ELSE Zero3]
       /\ quat = [i \in QIds |-> IF i = "p" THEN <<One, One, One, One>>
                                 ELSE IF invertible THEN UnitK ELSE QZero]

NextFrame ==
  \/ \E t, o \in M4Ids : M4DivideCall(t, o)
  \/ \E t, o \in M3Ids : M3DivideCall(t, o)
  \/ \E t, o \in QIds : QDivideCall(t, o)
  \/ \E m \in M3Ids : V3ApplyMatrix3Call("v", m)
  \/ \E m \in M4Ids : V3ApplyMatrix4Call("v", m)
  \/ \E m \in M4Ids : V4ApplyMatrix4Call(m)
  \/ \E q \in QIds : V3ApplyQuaternionCall("v", quat[q])
  \/ \E q \in QIds : V4ApplyQuaternionCall(quat[q])

SpecFrame == InitFrame /\ [][NextFrame]_vars

\* the call made by this step
Made == calls'[Len(calls')]

\* C30: a.divide(b) of Matrix3, Matrix4 and Quaternion, whether it succeeds
\* or returns null, changes no matrix and no quaternion of the caller other
\* than its receiver, and v.applyMatrix3(b), v.applyMatrix4(b) and
\* v.applyQuaternion(b) change no matrix and no quaternion at all: every
\* component of the argument b is what it was before the call.
C30_ArgumentsAreNotModified ==
  [][ Len(calls') = Len(calls) + 1 =>
        /\ \A o \in M4Ids : (Made.op = "M4.divide" /\ o = Made.recv) \/ mat4'[o] = mat4[o]
        /\ \A o \in M3Ids : (Made.op = "M3.divide" /\ o = Made.recv) \/ mat3'[o] = mat3[o]
        /\ \A o \in QIds : (Made.op = "Q.divide" /\ o = Made.recv) \/ quat'[o] = quat[o]
    ]_vars

\* a.divide(b) succeeded on Matrix4 with b = diag(2, 2, 2, 1), which b still
\* is, and before it a vector was transformed by a matrix
C30_Witness ==
  /\ LastIs("M4.divide")
  /\ last.recv = "a" /\ last.argid = "b" /\ last.ret = "this"
  /\ last.arg = Scale2 /\ mat4["b"] = Scale2
  /\ mat4["a"] # last.pre
  /\ Len(calls) > 1
  /\ calls[1].op \in {"V3.applyMatrix3", "V3.applyMatrix4", "V4.applyMatrix4"}

=============================================================================
